---- MODULE Spec2Model ----
(***************************************************************************)
(* Verification model of the APE agent runtime (Choapinus/APE):            *)
(*   - ape/core/rate_limiter.py   per-session rolling-window limiter       *)
(*   - ape/core/memory.py         WindowMemory (prune / force_summarize)   *)
(*   - ape/mcp/session_manager.py summary persistence                      *)
(*   - ape/core/agent_core.py     handle_tool_calls / chat_with_llm        *)
(*   - ape/mcp/server.py          handle_call_tool dispatch                *)
(*   - ape/mcp/plugin.py          tool registry and discover()             *)
(*   - ape/mcp/session_manager.py save_messages / get_history              *)
(*   - ape/db_pool.py             connection pools and get_db scopes       *)
(*   - a2a_simulation.py          repetition detection and recovery        *)
(*   - ape/mcp/implementations.py summarize_text_impl                      *)
(*   - ape/core/agent_core.py     discover_capabilities and its cache      *)
(* Each subsystem has its own specification over the shared variables.     *)
(***************************************************************************)
EXTENDS Integers, Sequences, FiniteSets, TLC

VARIABLES
    now,          \* value returned by time() (whole seconds)
    _counters,    \* rate_limiter._counters: session_id -> deque of timestamps
    rlLog,        \* history: every timestamp ever accepted, per session
    rlLast,       \* history: the last allow() call and what it saw
    rlCalls,      \* number of allow() calls made so far (bounded)
    \* ---- WindowMemory (ape/core/memory.py) and the summaries table ----
    ctx_limit,    \* WindowMemory.ctx_limit
    session_id,   \* WindowMemory.session_id (None or a session id)
    SUMMARIZE_THOUGHTS,  \* settings.SUMMARIZE_THOUGHTS
    messages,     \* WindowMemory.messages
    summary,      \* WindowMemory.summary, as the sequence of appended texts
    db_summaries, \* rows of the summaries table
    mpc,          \* position inside prune() / force_summarize()
    memOp,        \* which of the two is running or ran last
    chunk,        \* local: the messages chosen for summarisation
    summary_text, \* local: what summarize() returned
    memOutcome,   \* how the last prune()/force_summarize() returned
    cycleSnap,    \* history: messages and summary when the cycle started
    cycleFailed,  \* history: what failed in the current cycle
    memAdds,      \* number of add() calls made so far (bounded)
    \* ---- AgentCore.chat_with_llm / handle_tool_calls ----
    agentPc,      \* position inside chat_with_llm
    iteration,    \* local: iteration
    current_chunk,     \* local: current_chunk, as a sequence of text atoms
    cumulative_resp,   \* local: cumulative_resp, as a sequence of text atoms
    has_tool_calls,    \* local: has_tool_calls
    exec_conversation, \* local: the roles of exec_conversation, in order
    is_connected, \* mcp_client.is_connected
    tool_calls,   \* handle_tool_calls: the calls not yet processed
    batch,        \* handle_tool_calls: its argument
    results,      \* handle_tool_calls: results
    tool_result_str,   \* the content of the last tool message
    response,     \* what chat_with_llm returned
    contentLeft,  \* content chunks the model may still stream (bounded)
    call_tool_count,   \* history: invocations of mcp_client.call_tool
    lastCall,     \* history: the last tool call processed
    memoryAdded,  \* the roles of the messages the turn gave to memory.add
    \* ---- MCP server: handle_call_tool (ape/mcp/server.py) ----
    srvReq,       \* the last call_tool request: name and arguments
    srvHandler,   \* the implementation it invoked and with what, if any
    srvText,      \* the text of the TextContent it returned
    tool_errors,  \* rows of the tool_errors table
    \* ---- tool registry (ape/mcp/plugin.py) ----
    _REGISTRY,    \* plugin._REGISTRY: tool name -> registered function
    imported,     \* the tool modules already imported (sys.modules)
    implementations_is_package,  \* what "ape.mcp.implementations" resolves to
    regLog,       \* history: every registration made, in order
    regCalls,     \* number of calls made so far (bounded)
    readOut,      \* the last call of the registered read_resource tool
    \* ---- history table (ape/mcp/session_manager.py) and chat turns ----
    history,      \* committed rows of the history table, in rowid order
    dbClock,      \* the last value datetime.now() returned
    wPc,          \* position of the save_messages / a_save_messages running
    wTxn,         \* the writer's uncommitted view of the table
    wPending,     \* messages the writer has still to INSERT
    wOld,         \* history: get_history before the running save
    wNew,         \* history: the message list the running save was given
    lastSaved,    \* history: the list given to the last save that returned
    lastRead,     \* history: the last get_history / a_get_history call
    turnSnap,     \* history: what was stored when the last chat turn began
    storeOps,     \* number of storage operations started so far (bounded)
    \* ---- connection pools (ape/db_pool.py) ----
    _POOLS,       \* db_pool._POOLS: db_path -> pool (0: no entry)
    pools,        \* every _AioSqlitePool created: db_path, _queue, _initialised
    openConns,    \* the connections opened and not closed
    nextConn,     \* number of connections opened so far
    tpc,          \* per task: position inside "async with get_db(path)"
    tpool,        \* per task: local pool
    tconn,        \* per task: local conn
    texit,        \* per task, history: how its last body ended
    tinit,        \* per task: connections its _init_pool loop has put
    closeLog,     \* history: the last close_all_pools() and what it left open
    poolCloses,   \* number of close_all_pools() calls so far (bounded)
    poolScopes,   \* number of get_db scopes entered so far (bounded)
    \* ---- two-agent simulation (a2a_simulation.py) ----
    round_idx,    \* the round last run (0 before the first)
    prev_a,       \* prev_a: the last reply of APE-A, or None
    prev_b,       \* prev_b: the last reply of APE-B, or None
    rep_a,        \* rep_a
    rep_b,        \* rep_b
    recovery_count,  \* recovery_count
    simDone,      \* the loop was left
    recovered,    \* history: the last round sent the recovery prompt
    runA,         \* history: normalised replies of APE-A since the last
                  \* recovery
    runB,         \* history: the same for APE-B
    conv_a,       \* conv_a: the roles of APE-A's in-memory conversation
    conv_b,       \* conv_b: the same for APE-B
    current_message,        \* what APE-A is given in the next round
    force_summarize_calls,  \* force_summarize() calls made by the loop
    mcp_session,  \* mcp_client.mcp_session is set (the connection is open)
    simExit,      \* how triple_agent_simulation ended
    \* ---- summariser tool (ape/mcp/implementations.py) ----
    sumPc,        \* "idle", or "returned" while a result is with the caller
    sumReq,       \* the call: input text, settings, backend behaviour
    sumRes,       \* what summarize_text_impl returned
    \* ---- prune() called repeatedly (ape/core/memory.py) ----
    prevPrune,    \* history: the prune() calls made in a row, and what the
                  \* previous one left
    answered,     \* history: <<chunk, text>> of the last summarize() of the row
    loopStat,     \* history: loop-body runs of this prune() call, and
                  \* len(messages) when it was called
    \* ---- AgentCore.discover_capabilities (ape/core/agent_core.py) ----
    capClock,     \* datetime.utcnow(), in minutes
    capCache,     \* _cached_capabilities and _caps_timestamp
    capOut,       \* what the last discover_capabilities() returned
    \* ---- sliding-window guard of chat_with_llm (ape/core/agent_core.py) ----
    trim,         \* exec_conversation before and after the guard
    \* ---- resource registry (ape/resources) ----
    resRead,      \* the last read_resource call: the URI and what came back
    \* ---- concurrent chat turns on one session ----
    turnsOf,      \* per turn: position, variant and the history it read
    \* ---- prompt registry (ape/prompts/__init__.py) ----
    _prompt_cache, \* module global: prompt name -> template
    promptDisk,   \* the revision of the prompt files of each directory
    promptLog     \* history: directories registered, reloads, calls made

rlVars == <<now, _counters, rlLog, rlLast, rlCalls>>
memVars == <<ctx_limit, session_id, SUMMARIZE_THOUGHTS, messages, summary,
             db_summaries, mpc, memOp, chunk, summary_text, memOutcome,
             cycleSnap, cycleFailed, memAdds>>
agentVars == <<agentPc, iteration, current_chunk, cumulative_resp,
               has_tool_calls, exec_conversation, is_connected, tool_calls,
               batch, results, tool_result_str, response, contentLeft,
               call_tool_count, lastCall, memoryAdded>>
srvVars == <<srvReq, srvHandler, srvText, tool_errors>>
\* the variables of the subsystems beside limiter, memory and agent loop
regVars == <<_REGISTRY, imported, implementations_is_package, regLog,
             regCalls, readOut>>
storeVars == <<history, dbClock, wPc, wTxn, wPending, wOld, wNew, lastSaved,
               lastRead, turnSnap, storeOps>>
poolVars == <<_POOLS, pools, openConns, nextConn, tpc, tpool, tconn, texit,
              tinit,
              closeLog, poolCloses, poolScopes>>
simVars == <<round_idx, prev_a, prev_b, rep_a, rep_b, recovery_count,
             simDone, recovered, runA, runB, conv_a, conv_b,
             current_message, force_summarize_calls, mcp_session, simExit>>
sumVars == <<sumPc, sumReq, sumRes>>
rowVars == <<prevPrune, answered, loopStat>>
capVars == <<capClock, capCache, capOut>>
trimVars == <<trim>>
resVars == <<resRead>>
turnVars == <<turnsOf>>
promptVars == <<_prompt_cache, promptDisk, promptLog>>
restVars == <<srvVars, regVars, storeVars, poolVars, simVars,
             sumVars,
             rowVars,
             capVars,
             trimVars,
             resVars,
             turnVars,
             promptVars>>
coreVars == <<rlVars, memVars, agentVars>>
vars == <<coreVars, restVars>>

(***************************************************************************)
(* Rate limiter (ape/core/rate_limiter.py)                                 *)
(***************************************************************************)
CALLS_PER_MINUTE == 60
WINDOW_SECONDS == 60

Sessions == {"s1", "s2"}

\* Clock readings explored by the limiter specification.
RLTimes == {0, 1, 60, 61, 121}
\* Number of calls already accepted at time 0 when exploration starts.
RLPrefill == {0, 58, 59}
RLMaxCalls == 3

RECURSIVE DropExpired(_, _)
\* while q and q[0] < expire_before: q.popleft()
DropExpired(q, expire_before) ==
    IF q # <<>> /\ Head(q) < expire_before
    THEN DropExpired(Tail(q), expire_before)
    ELSE q

\* faulty variant: the cap test off by one
AtCapOffByOne(q) == Len(q) > CALLS_PER_MINUTE

\* cap test of allow(): len(q) >= CALLS_PER_MINUTE
AtCap(q) == Len(q) >= CALLS_PER_MINUTE

\* faulty variant: a rejected call is recorded as well
allowRecordsRejected(q, t) ==
    LET q1 == DropExpired(q, t - WINDOW_SECONDS)
    IN  [ok |-> ~AtCap(q1), q |-> Append(q1, t)]

\* allow(session_id) as a function of the session's deque and time()
allow(q, t) ==
    LET q1 == DropExpired(q, t - WINDOW_SECONDS)
    IN  IF AtCap(q1)
        THEN [ok |-> FALSE, q |-> q1]
        ELSE [ok |-> TRUE,  q |-> Append(q1, t)]

\* Number of accepted calls of a log that lie within the last window.
InWindow(log, t) ==
    Cardinality({i \in 1..Len(log) : log[i] >= t - WINDOW_SECONDS})

NoCall == [called |-> FALSE, sid |-> "s1", ok |-> FALSE, inWindow |-> 0,
           before |-> <<>>, after |-> <<>>]

\* The limiter after f[s] calls of each session s at time t.
RLStart(f, t) ==
    /\ now = t
    /\ _counters = [s \in Sessions |-> [i \in 1..f[s] |-> t]]
    /\ rlLog = [s \in Sessions |-> [i \in 1..f[s] |-> t]]
    /\ rlLast = NoCall
    /\ rlCalls = 0

RLInit == \E f \in [Sessions -> RLPrefill] : RLStart(f, 0)

\* import time: _counters is empty
RLFresh == RLStart([s \in Sessions |-> 0], 0)

\* time passes between two calls
RLTick ==
    /\ \E t \in RLTimes : t > now /\ now' = t
    /\ UNCHANGED <<_counters, rlLog, rlLast, rlCalls>>
    /\ UNCHANGED <<memVars, agentVars, restVars>>

\* one call of allow(s)
RLAllow(s) ==
    /\ rlCalls < RLMaxCalls
    /\ LET r == allow(_counters[s], now)
       IN  /\ _counters' = [_counters EXCEPT ![s] = r.q]
           /\ rlLog' = [rlLog EXCEPT ![s] =
                           IF r.ok THEN Append(@, now) ELSE @]
           /\ rlLast' = [called |-> TRUE, sid |-> s, ok |-> r.ok,
                         inWindow |-> InWindow(rlLog[s], now),
                         before |-> _counters, after |-> _counters']
    /\ rlCalls' = rlCalls + 1
    /\ UNCHANGED now
    /\ UNCHANGED <<memVars, agentVars, restVars>>

RLNext ==
    \/ RLTick
    \/ \E s \in Sessions : RLAllow(s)

(***************************************************************************)
(* WindowMemory (ape/core/memory.py)                                       *)
(*                                                                         *)
(* A message is [id, tok, vis]: tok is count_tokens(content), vis the part *)
(* of it outside <think>...</think> blocks.  A text is [kind, tok].        *)
(* count_tokens is taken to count whitespace-separated words, so the "\n" *)
(* that joins two texts adds no token.                                     *)
(***************************************************************************)
CONTEXT_MARGIN_TOKENS == 1024
FallbackWords == 128

None == "None"
NoText == [kind |-> "empty", tok |-> 0]

\* Shapes of the messages added / of the summariser's answers explored.
MsgShapes == {[tok |-> 40, vis |-> 40], [tok |-> 200, vis |-> 0]}
CtxLimits == {1000, 1224}
SummaryToks == {0, 30}
MemMaxAdds == 3
\* A start with a buffer long enough for a batch of two messages.
LongLimit == 1324
LongBuffer == 8

RECURSIVE SumTok(_)
SumTok(seq) == IF seq = <<>> THEN 0 ELSE Head(seq).tok + SumTok(Tail(seq))

RECURSIVE SumVis(_)
SumVis(seq) == IF seq = <<>> THEN 0 ELSE Head(seq).vis + SumVis(Tail(seq))

Min(a, b) == IF a < b THEN a ELSE b
Max(a, b) == IF a > b THEN a ELSE b

\* WindowMemory.tokens()
tokens(msgs, sum) == SumTok(msgs) + SumTok(sum)

\* faulty variant: the loop test forgets the margin
PruneCondNoMargin(msgs, sum, limit) ==
    tokens(msgs, sum) > limit /\ msgs # <<>>

\* loop test of prune()
PruneCond(msgs, sum, limit) ==
    tokens(msgs, sum) > limit - CONTEXT_MARGIN_TOKENS /\ msgs # <<>>

\* faulty variant: a batch may be empty
BatchSizeNoMax(msgs) == Len(msgs) \div 4

\* batch_size = max(1, len(self.messages) // 4)
BatchSize(msgs) == Max(1, Len(msgs) \div 4)

\* faulty variant: prune() returns after one cycle
LoopsBackNever(op) == FALSE

\* prune() is a while loop: after a cycle the test is made again;
\* force_summarize() runs one cycle
LoopsBack(op) == op = "prune"

\* words of text_chunk.strip() after the optional <think> stripping
TextWords(c, thoughts) == IF thoughts THEN SumTok(c) ELSE SumVis(c)

\* What mcp_client.call_tool("summarize_text", ...) may do.
ToolReplies ==
    {[kind |-> "raise", tok |-> 0], [kind |-> "no_content", tok |-> 0],
     [kind |-> "error_text", tok |-> 10]}
    \cup {[kind |-> "result", tok |-> k] : k \in SummaryToks}

\* WindowMemory.summarize(text): the returned text
summarize(words, reply) ==
    CASE reply.kind = "raise" ->
            IF words > 0
            THEN [kind |-> "fallback", tok |-> Min(FallbackWords, words)]
            ELSE NoText
      [] reply.kind = "no_content" -> NoText
      [] reply.kind = "error_text" -> [kind |-> "raw", tok |-> reply.tok]
      [] OTHER ->
            IF reply.tok = 0 THEN NoText
            ELSE [kind |-> "summary", tok |-> reply.tok]

\* db_pool.get_db(db_path) called with the arguments args: without db_path
\* the call raises TypeError before a connection is taken
get_db_raises(args) == Len(args) # 1
\* the async methods of SessionManager write "async with get_db() as conn"
GetDbArgs == <<>>

\* What the save step may meet: get_session_manager() raises, or
\* a_save_summary fails and logs it (at get_db(), or at the INSERT), or the
\* INSERT succeeds on the connection get_db yielded.
SaveOutcomes ==
    {"sm_raises", "insert_fails"}
       \cup (IF get_db_raises(GetDbArgs) THEN {} ELSE {"insert_ok"})

\* SessionManager.a_save_summary: the table after the call
a_save_summary(db, sid, orig, text, outcome) ==
    IF outcome = "insert_ok"
    THEN Append(db, [session_id |-> sid, original_messages |-> orig,
                     summary_text |-> text])
    ELSE db

NoSnap == [messages |-> <<>>, summary |-> <<>>]

\* WindowMemory.__init__
\* and n calls of add() with 40-token messages
MemStart(limit, sid, thoughts, n) ==
    /\ ctx_limit = limit
    /\ session_id = sid
    /\ SUMMARIZE_THOUGHTS = thoughts
    /\ messages = [i \in 1..n |-> [id |-> i, tok |-> 40, vis |-> 40]]
    /\ summary = <<>>
    /\ db_summaries = <<>>
    /\ mpc = "idle"
    /\ memOp = "none"
    /\ chunk = <<>>
    /\ summary_text = NoText
    /\ memOutcome = "none"
    /\ cycleSnap = NoSnap
    /\ cycleFailed = "none"
    /\ memAdds = n

MemInit ==
    \E sid \in {None, "s1"}, thoughts \in BOOLEAN :
        \/ \E limit \in CtxLimits : MemStart(limit, sid, thoughts, 0)
        \/ MemStart(LongLimit, sid, thoughts, LongBuffer)

\* the memory of an agent with the default settings
MemFresh == MemStart(8192, "s1", FALSE, 0)

memConfig == <<ctx_limit, session_id, SUMMARIZE_THOUGHTS>>

\* WindowMemory.add(message)
MemAdd ==
    /\ mpc = "idle"
    /\ memAdds < MemMaxAdds
    /\ \E sh \in MsgShapes :
          messages' = Append(messages, [id |-> memAdds + 1, tok |-> sh.tok,
                                        vis |-> sh.vis])
    /\ memAdds' = memAdds + 1
    /\ memOutcome' = "none"
    /\ UNCHANGED <<memConfig, summary, db_summaries, mpc, memOp, chunk,
                   summary_text, cycleSnap, cycleFailed>>
    /\ UNCHANGED <<rlVars, agentVars, restVars>>

\* prune() is called
PruneCallBody ==
    /\ mpc = "idle"
    /\ mpc' = "prune_loop"
    /\ memOp' = "prune"
    /\ memOutcome' = "none"
    /\ cycleFailed' = "none"
    /\ cycleSnap' = [messages |-> messages, summary |-> summary]
    /\ UNCHANGED <<memConfig, messages, summary, db_summaries, chunk,
                   summary_text, memAdds>>

PruneCall ==
    /\ PruneCallBody
    /\ UNCHANGED <<rlVars, agentVars, restVars>>

\* the while test of prune(), and the choice of the chunk
PruneLoopBody ==
    /\ mpc = "prune_loop"
    /\ IF PruneCond(messages, summary, ctx_limit)
       THEN /\ chunk' = SubSeq(messages, 1, BatchSize(messages))
            /\ mpc' = "summarize"
            /\ memOutcome' = memOutcome
            /\ cycleSnap' = [messages |-> messages, summary |-> summary]
            /\ cycleFailed' = "none"
       ELSE /\ mpc' = "idle"
            /\ memOutcome' = "completed"
            /\ chunk' = <<>>
            /\ UNCHANGED <<cycleSnap, cycleFailed>>
    /\ UNCHANGED <<memConfig, messages, summary, db_summaries, memOp,
                   summary_text, memAdds>>

PruneLoop ==
    /\ PruneLoopBody
    /\ UNCHANGED <<rlVars, agentVars, restVars>>

\* faulty variant: force_summarize() takes a batch as prune() does
ForceChunkBatch(msgs) == SubSeq(msgs, 1, BatchSize(msgs))

\* chunk = self.messages[:]
ForceChunk(msgs) == msgs

\* force_summarize() is called
ForceCall ==
    /\ mpc = "idle"
    /\ memOp' = "force"
    /\ cycleFailed' = "none"
    /\ cycleSnap' = [messages |-> messages, summary |-> summary]
    /\ IF messages = <<>>
       THEN /\ mpc' = "idle"
            /\ memOutcome' = "nothing"
            /\ chunk' = chunk
       ELSE /\ mpc' = "summarize"
            /\ memOutcome' = "none"
            /\ chunk' = ForceChunk(messages)
    /\ UNCHANGED <<memConfig, messages, summary, db_summaries,
                   summary_text, memAdds>>
    /\ UNCHANGED <<rlVars, agentVars, restVars>>

\* summary_text = await self.summarize(text_chunk.strip()), and the test
\* "if summary_text" of both callers
MemSummarizeBody ==
    /\ mpc = "summarize"
    /\ \E reply \in ToolReplies :
          /\ summary_text' =
                summarize(TextWords(chunk, SUMMARIZE_THOUGHTS), reply)
          /\ cycleFailed' =
                IF reply.kind = "raise" THEN "summariser" ELSE cycleFailed
    /\ IF summary_text' # NoText
       THEN mpc' = "save" /\ memOutcome' = memOutcome
       ELSE mpc' = "idle" /\ memOutcome' = "aborted"
    /\ UNCHANGED <<memConfig, messages, summary, db_summaries, memOp, chunk,
                   cycleSnap, memAdds>>

MemSummarize ==
    /\ MemSummarizeBody
    /\ UNCHANGED <<rlVars, agentVars, restVars>>

\* sm = get_session_manager(); if self.session_id: await sm.a_save_summary(...)
MemSaveBody ==
    /\ mpc = "save"
    /\ \E outcome \in SaveOutcomes :
          IF outcome = "sm_raises"
          THEN /\ mpc' = "idle"
               /\ memOutcome' = "aborted"
               /\ cycleFailed' = "storage"
               /\ UNCHANGED db_summaries
          ELSE /\ mpc' = "drop"
               /\ memOutcome' = memOutcome
               /\ IF session_id # None
                  THEN /\ db_summaries' =
                            a_save_summary(db_summaries, session_id, chunk,
                                           summary_text, outcome)
                       /\ cycleFailed' =
                            IF outcome = "insert_fails" THEN "storage"
                            ELSE cycleFailed
                  ELSE UNCHANGED <<db_summaries, cycleFailed>>
    /\ UNCHANGED <<memConfig, messages, summary, memOp, chunk, summary_text,
                   cycleSnap, memAdds>>

MemSave ==
    /\ MemSaveBody
    /\ UNCHANGED <<rlVars, agentVars, restVars>>

\* del self.messages[:batch_size] / self.messages.clear(), then
\* self.summary += ("\n" if self.summary else "") + summary_text
MemDropBody ==
    /\ mpc = "drop"
    /\ messages' = SubSeq(messages, Len(chunk) + 1, Len(messages))
    /\ summary' = Append(summary, summary_text)
    /\ IF LoopsBack(memOp)
       THEN mpc' = "prune_loop" /\ memOutcome' = memOutcome
       ELSE mpc' = "idle" /\ memOutcome' = "completed"
    /\ UNCHANGED <<memConfig, db_summaries, memOp, chunk, summary_text,
                   cycleSnap, cycleFailed, memAdds>>

MemDrop ==
    /\ MemDropBody
    /\ UNCHANGED <<rlVars, agentVars, restVars>>

MemNext ==
    \/ MemAdd
    \/ PruneCall
    \/ PruneLoop
    \/ ForceCall
    \/ MemSummarize
    \/ MemSave
    \/ MemDrop


(***************************************************************************)
(* Signed envelopes.  A token is the set of claims that was signed and the *)
(* key it was signed with; an envelope is what call_tool returned.         *)
(***************************************************************************)
SIG_LIFETIME == 600
MCP_JWT_KEY == "secret"

Missing == "missing"
Empty == "empty"
\* an envelope without "jwt"/"sig", and a token that is no JWT
NoToken == [form |-> "none", key |-> Missing, result_id |-> Missing,
            payload |-> Missing, iat |-> 0, exp |-> 0]
Garbage == [NoToken EXCEPT !.form = "garbage"]

\* Signer: HS256 over {result_id, payload, iat, exp = iat + 600s}
sign(rid, payload, t) ==
    [form |-> "jwt", key |-> MCP_JWT_KEY, result_id |-> rid,
     payload |-> payload, iat |-> t, exp |-> t + SIG_LIFETIME]

\* Dispatcher: the envelope around a tool result signed at time t
Envelope(rid, payload, t) ==
    [shape |-> "env", result_id |-> rid, payload |-> payload,
     sig |-> sign(rid, payload, t)]

\* Ages (seconds since issue) of the envelopes presented.
Ages == {0, 599, 600, 601}

\* What mcp_client.call_tool may return at time t, besides raising.
Responses(t) ==
    \* the server's envelope, presented at each age
    {Envelope("r1", "p1", t - a) : a \in Ages}
    \* signed with another key, fresh or stale
    \cup {[Envelope("r1", "p1", t - a) EXCEPT !.sig.key = "other"] :
              a \in {0, 601}}
    \* the outer payload or result_id replaced after signing
    \cup {[Envelope("r1", "p1", t) EXCEPT !.payload = "p2"],
          [Envelope("r1", "p1", t) EXCEPT !.result_id = "r2"],
          [Envelope("r1", "p1", t) EXCEPT !.payload = Missing],
          [Envelope("r1", Missing, t) EXCEPT !.payload = "p1"]}
    \* no signature, an unreadable signature
    \cup {[shape |-> "env", result_id |-> "r1", payload |-> "p1",
           sig |-> NoToken],
          [shape |-> "env", result_id |-> "r1", payload |-> Missing,
           sig |-> NoToken],
          [shape |-> "env", result_id |-> "r1", payload |-> "p1",
           sig |-> Garbage]}
    \* not an envelope: no content, plain text
    \cup {[shape |-> "no_content", result_id |-> Missing,
           payload |-> Missing, sig |-> NoToken],
          [shape |-> "text", result_id |-> Missing, payload |-> Missing,
           sig |-> NoToken]}

\* faulty variant: the expiry claim is not checked
jwt_decode_no_exp(token, key, t, strict) ==
    IF token.form # "jwt" \/ token.key # key THEN "invalid" ELSE "ok"

\* jwt.decode(token, key, algorithms=["HS256"]): "ok", or which error.
\* The signature is checked first, then exp; whether a token presented at
\* exactly exp is expired depends on the library version (strict).
jwt_decode(token, key, t, strict) ==
    IF token.form # "jwt" \/ token.key # key THEN "invalid"
    ELSE IF t > token.exp \/ (strict /\ t = token.exp) THEN "expired"
    ELSE "ok"

\* raw, as text placed into a message
RawText(raw) ==
    IF raw.shape = "no_content" THEN Empty
    ELSE IF raw.shape = "text" THEN "rawtext" ELSE "rawenv"

\* handle_tool_calls, "verify JWT": verified, payload_text, verification_error
VerifyEnvelope(raw, t, strict) ==
    IF raw.shape # "env"
    THEN [verified |-> FALSE, payload_text |-> RawText(raw),
          verification_error |-> "malformed"]
    ELSE IF raw.sig = NoToken
    THEN [verified |-> FALSE,
          payload_text |-> IF raw.payload # Missing THEN raw.payload
                           ELSE RawText(raw),
          verification_error |-> "missing"]
    ELSE LET d == jwt_decode(raw.sig, MCP_JWT_KEY, t, strict)
         IN  IF d = "ok"
             THEN [verified |-> TRUE,
                   payload_text |-> IF raw.sig.payload # Missing
                                    THEN raw.sig.payload ELSE "decoded_json",
                   verification_error |-> Empty]
             ELSE [verified |-> FALSE, payload_text |-> Empty,
                   verification_error |-> d]

\* handle_tool_calls: the text of the result
ResultText(v) ==
    IF v.verified THEN [kind |-> "payload", content |-> v.payload_text]
    ELSE IF v.payload_text # Empty
    THEN [kind |-> "tool_error", content |-> v.payload_text]
    ELSE [kind |-> "sig_error", content |-> v.verification_error]

RateLimitedText == [kind |-> "rate_limited", content |-> Empty]
ExecErrorText == [kind |-> "exec_error", content |-> Empty]

(***************************************************************************)
(* AgentCore.chat_with_llm and handle_tool_calls (ape/core/agent_core.py)  *)
(***************************************************************************)
MAX_TOOLS_ITERATIONS == 15

AgentSession == "s1"
\* Sizes of the tool-call batches the model emits.
BatchSizes == {1, 2}
\* Content chunks the model streams in one turn.
MaxContent == 1
\* Calls the session already made in the current window at the turn's start.
AgentPrefill == {57, 59}
\* time() at the turn's start
TurnStart == 1000

NoRaw == [shape |-> "none", result_id |-> Missing, payload |-> Missing,
          sig |-> NoToken]
NoLastCall == [kind |-> "none", raw |-> NoRaw, strict |-> FALSE,
               text |-> ExecErrorText, callsBefore |-> 0, at |-> 0,
               call |-> [fn |-> "tool", index |-> 0], errorRows |-> <<>>]

\* a row of the tool_errors table; the call's index stands for its arguments
ErrorRow(session, call, error) ==
    [session_id |-> session, tool |-> call.fn, arguments |-> call.index,
     error |-> error]

\* a_save_error: "async with get_db() as conn", INSERT, commit; an
\* exception is logged and nothing is stored
a_save_error(call, error, session) ==
    IF get_db_raises(GetDbArgs) THEN <<>>
    ELSE <<ErrorRow(session, call, error)>>

\* the calls handle_tool_calls records: "if not verified", and the outer
\* except branch
SavesError(kind, verified) ==
    \/ kind = "raised"
    \/ kind = "returned" /\ ~verified

\* the rows one tool call adds to tool_errors
ErrorRowsOf(kind, verified, call, session) ==
    IF SavesError(kind, verified)
    THEN a_save_error(call,
                      IF kind = "raised" THEN "exception"
                      ELSE "Signature verification failed",
                      session)
    ELSE <<>>

\* faulty variant: the loop test off by one
LoopTestOffByOne(i) == i <= MAX_TOOLS_ITERATIONS

\* while iteration < max_iter
LoopTest(i) == i < MAX_TOOLS_ITERATIONS

\* faulty variant: a rejected call ends the batch
AfterRejectBreak(rest) == <<>>

\* "continue" after a rejected call: the rest of the batch is still processed
AfterReject(rest) == rest

NoToolOutput == [kind |-> "none", blocks |-> <<>>]
\* handle_tool_calls with a disconnected client: a bare error string
NotConnectedText == [kind |-> "not_connected", blocks |-> <<>>]

\* faulty variant: rate-limited results get no block
FormatSkipRejected(rs) ==
    LET kept == SelectSeq(rs, LAMBDA r : r.result # RateLimitedText)
    IN  [kind |-> "tool_output",
         blocks |-> [i \in 1..Len(kept) |->
                       [index |-> i, name |-> kept[i].tool,
                        call |-> kept[i].index, result |-> kept[i].result]]]

\* formatted_lines: one <tool_output index=idx> block per entry of results,
\* idx from enumerate(results, 1); "call" is the emission position of the
\* call the block reports
FormatToolOutput(rs) ==
    [kind |-> "tool_output",
     blocks |-> [i \in 1..Len(rs) |->
                   [index |-> i, name |-> rs[i].tool,
                    call |-> rs[i].index, result |-> rs[i].result]]]

\* chat_with_llm has not returned: no response yet
NoResponse == <<None>>

AgentStart ==
    /\ agentPc = "start"
    /\ iteration = 0
    /\ current_chunk = <<>>
    /\ cumulative_resp = <<>>
    /\ has_tool_calls = FALSE
    /\ exec_conversation = <<"system", "user">>
    /\ is_connected \in BOOLEAN
    /\ tool_calls = <<>>
    /\ batch = <<>>
    /\ results = <<>>
    /\ tool_result_str = NoToolOutput
    /\ response = NoResponse
    /\ contentLeft = MaxContent
    /\ call_tool_count = 0
    /\ lastCall = NoLastCall
    \* memory.add({"role": "user", ...}); await memory.prune()
    /\ memoryAdded = <<"user">>

AgentInit ==
    /\ \E n \in AgentPrefill :
          RLStart([s \in Sessions |-> IF s = AgentSession THEN n ELSE 0],
                  TurnStart)
    /\ MemFresh
    /\ AgentStart

\* the agent before any turn
AgentFresh == AgentStart /\ is_connected = TRUE

agentLocals == <<current_chunk, cumulative_resp, has_tool_calls,
                 exec_conversation>>
toolLocals == <<tool_calls, batch, results, tool_result_str>>

\* the while test; a new stream is requested, or the loop is left at the cap
AgentLoop ==
    /\ agentPc \in {"start", "loop"}
    /\ IF LoopTest(iteration)
       THEN /\ agentPc' = "streaming"
            /\ current_chunk' = <<>>
            /\ has_tool_calls' = FALSE
            /\ response' = response
       ELSE /\ agentPc' = "done"
            /\ response' = cumulative_resp
            /\ UNCHANGED <<current_chunk, has_tool_calls>>
    /\ UNCHANGED <<iteration, cumulative_resp, exec_conversation,
                   is_connected, toolLocals, contentLeft, call_tool_count,
                   lastCall>>
    /\ UNCHANGED memoryAdded
    /\ UNCHANGED <<rlVars, memVars, restVars>>

\* client.chat raises twice, or the stream raises: the exception propagates
AgentStreamError ==
    /\ agentPc = "streaming"
    /\ agentPc' = "raised"
    /\ UNCHANGED <<iteration, agentLocals, is_connected, toolLocals,
                   response, contentLeft, call_tool_count, lastCall>>
    /\ UNCHANGED memoryAdded
    /\ UNCHANGED <<rlVars, memVars, restVars>>

\* a chunk with content: current_chunk += content
AgentContent ==
    /\ agentPc = "streaming"
    /\ contentLeft > 0
    /\ contentLeft' = contentLeft - 1
    /\ current_chunk' = Append(current_chunk, "c")
    /\ UNCHANGED <<agentPc, iteration, cumulative_resp, has_tool_calls,
                   exec_conversation, is_connected, toolLocals, response,
                   call_tool_count, lastCall>>
    /\ UNCHANGED memoryAdded
    /\ UNCHANGED <<rlVars, memVars, restVars>>

\* a chunk with tool calls: the assistant text is flushed and
\* handle_tool_calls is entered
AgentToolCalls ==
    /\ agentPc = "streaming"
    /\ has_tool_calls' = TRUE
    /\ iteration' = iteration + 1
    /\ IF current_chunk # <<>>
       THEN /\ exec_conversation' = Append(exec_conversation, "assistant")
            /\ cumulative_resp' = cumulative_resp \o current_chunk \o <<"\n">>
            /\ current_chunk' = <<>>
       ELSE UNCHANGED <<exec_conversation, cumulative_resp, current_chunk>>
    /\ \E n \in BatchSizes :
          /\ batch' = [i \in 1..n |-> [fn |-> "tool", index |-> i]]
          /\ tool_calls' = IF is_connected THEN batch' ELSE <<>>
    /\ results' = <<>>
    /\ lastCall' = NoLastCall
    /\ agentPc' = "dispatch"
    /\ UNCHANGED <<is_connected, tool_result_str, response, contentLeft,
                   call_tool_count>>
    /\ UNCHANGED memoryAdded
    /\ UNCHANGED <<rlVars, memVars, restVars>>

\* one turn of "for call in tool_calls": the limiter, then call_tool and the
\* verification of what it returned
AgentCall ==
    /\ agentPc = "dispatch"
    /\ tool_calls # <<>>
    /\ LET call == Head(tool_calls)
           r == allow(_counters[AgentSession], now)
       IN  /\ _counters' = [_counters EXCEPT ![AgentSession] = r.q]
           /\ rlLog' = [rlLog EXCEPT ![AgentSession] =
                           IF r.ok THEN Append(@, now) ELSE @]
           /\ IF ~r.ok
              THEN /\ results' = Append(results, [tool |-> call.fn,
                                    index |-> call.index,
                                    result |-> RateLimitedText])
                   /\ tool_calls' = AfterReject(Tail(tool_calls))
                   /\ call_tool_count' = call_tool_count
                   /\ lastCall' = [kind |-> "rate_limited", raw |-> NoRaw,
                                   strict |-> FALSE,
                                   text |-> RateLimitedText,
                                   callsBefore |-> call_tool_count,
                                   at |-> now, call |-> call,
                                   errorRows |->
                                     ErrorRowsOf("rate_limited", FALSE, call,
                                                 AgentSession)]
              ELSE /\ call_tool_count' = call_tool_count + 1
                   /\ tool_calls' = Tail(tool_calls)
                   /\ \/ \* call_tool raises
                         /\ results' = Append(results, [tool |-> call.fn,
                                          index |-> call.index,
                                          result |-> ExecErrorText])
                         /\ lastCall' = [kind |-> "raised", raw |-> NoRaw,
                                         strict |-> FALSE,
                                         text |-> ExecErrorText,
                                         callsBefore |-> call_tool_count,
                                         at |-> now, call |-> call,
                                         errorRows |->
                                           ErrorRowsOf("raised", FALSE, call,
                                                       AgentSession)]
                      \/ \E raw \in Responses(now), strict \in BOOLEAN :
                            LET v == VerifyEnvelope(raw, now, strict)
                                text == ResultText(v)
                            IN  /\ results' = Append(results,
                                        [tool |-> call.fn,
                                         index |-> call.index,
                                         result |-> text])
                                /\ lastCall' = [kind |-> "returned",
                                        raw |-> raw, strict |-> strict,
                                        text |-> text,
                                        callsBefore |-> call_tool_count,
                                        at |-> now, call |-> call,
                                        errorRows |->
                                          ErrorRowsOf("returned", v.verified,
                                                      call, AgentSession)]
    /\ UNCHANGED <<now, rlLast, rlCalls>>
    /\ UNCHANGED <<agentPc, iteration, agentLocals, is_connected, batch,
                   tool_result_str, response, contentLeft>>
    /\ UNCHANGED memoryAdded
    /\ UNCHANGED <<memVars, restVars>>

\* handle_tool_calls returns; the tool message is appended and the inner
\* streaming loop is left
AgentToolMessage ==
    /\ agentPc = "dispatch"
    /\ tool_calls = <<>>
    /\ tool_result_str' = IF is_connected THEN FormatToolOutput(results)
                          ELSE NotConnectedText
    /\ exec_conversation' = Append(exec_conversation, "tool")
    /\ agentPc' = "loop"
    /\ UNCHANGED <<iteration, current_chunk, cumulative_resp, has_tool_calls,
                   is_connected, tool_calls, batch, results, response,
                   contentLeft, call_tool_count, lastCall>>
    /\ UNCHANGED memoryAdded
    /\ UNCHANGED <<rlVars, memVars, restVars>>

\* the stream ends without tool calls: the final answer, which is stored
\* in memory
AgentFinal ==
    /\ agentPc = "streaming"
    /\ cumulative_resp' = cumulative_resp \o current_chunk
    /\ response' = cumulative_resp'
    /\ memoryAdded' = Append(memoryAdded, "assistant")
    /\ agentPc' = "done"
    /\ UNCHANGED <<iteration, current_chunk, has_tool_calls,
                   exec_conversation, is_connected, toolLocals,
                   contentLeft, call_tool_count, lastCall>>
    /\ UNCHANGED <<rlVars, memVars, restVars>>

AgentNext ==
    \/ AgentLoop
    \/ AgentStreamError
    \/ AgentContent
    \/ AgentToolCalls
    \/ AgentCall
    \/ AgentToolMessage
    \/ AgentFinal

(***************************************************************************)
(* MCP server: handle_call_tool (ape/mcp/server.py)                        *)
(***************************************************************************)
\* Tool names a client may send; "nope" is not a tool of the server.
ToolNames == {"execute_database_query", "get_conversation_history",
              "get_database_info", "search_conversations",
              "list_available_tools", "get_last_N_user_interactions",
              "get_last_N_tool_interactions",
              "get_last_N_agent_interactions", "nope"}
\* Argument keys a client may send; "bogus" is declared by no tool.
ArgKeys == {"sql_query", "query", "limit", "session_id", "n", "bogus"}
\* Argument values: the key is absent, the empty string, or a text.
ArgValues == {Missing, Empty, "a", "b"}
\* The arguments objects a client may send.
Arguments == [ArgKeys -> ArgValues]

\* handle_list_tools: inputSchema.properties of each tool
properties(name) ==
    CASE name = "execute_database_query" -> {"sql_query", "query"}
      [] name = "get_conversation_history" -> {"session_id", "limit"}
      [] name = "get_database_info" -> {}
      [] name = "search_conversations" -> {"query", "limit"}
      [] name = "list_available_tools" -> {}
      [] name \in {"get_last_N_user_interactions",
                   "get_last_N_tool_interactions",
                   "get_last_N_agent_interactions"} -> {"n", "session_id"}
      [] OTHER -> {}

\* faulty variant: a key that is absent is taken from "bogus"
getOrBogus(arguments, key, default) ==
    IF arguments[key] # Missing THEN arguments[key]
    ELSE IF arguments["bogus"] # Missing THEN arguments["bogus"]
    ELSE default

\* arguments.get(key, default)
get(arguments, key, default) ==
    IF arguments[key] # Missing THEN arguments[key] ELSE default

\* a or b, for strings: the empty string is falsy
Or(a, b) == IF a \notin {Missing, Empty} THEN a ELSE b

NoHandler == [fn |-> "none", args |-> <<>>]
NoArgs == [k \in {} |-> Missing]

\* the text of an error the except branch returns
ErrorExecuting(detail) == <<"Error executing tool:">> \o detail

\* The branch of handle_call_tool taken for name: the implementation it
\* invokes with its parameters, or the text it returns without invoking one.
Dispatch(name, arguments) ==
    CASE name = "execute_database_query" ->
            LET sql_query == Or(get(arguments, "sql_query", Missing),
                                get(arguments, "query", Empty))
            IN  IF sql_query = Empty
                THEN [handler |-> NoHandler,
                      text |-> <<"ERROR: No SQL query provided">>]
                ELSE [handler |-> [fn |-> "execute_database_query_impl",
                                   args |-> [k \in {"sql_query"} |->
                                               sql_query]],
                      text |-> <<>>]
      [] name = "get_conversation_history" ->
            [handler |-> [fn |-> "get_conversation_history_impl",
                          args |-> [k \in {"session_id", "limit"} |->
                             IF k = "session_id"
                             THEN get(arguments, "session_id", None)
                             ELSE get(arguments, "limit", "default")]],
             text |-> <<>>]
      [] name = "get_database_info" ->
            [handler |-> [fn |-> "get_database_info_impl", args |-> NoArgs],
             text |-> <<>>]
      [] name = "search_conversations" ->
            [handler |-> [fn |-> "search_conversations_impl",
                          args |-> [k \in {"query", "limit"} |->
                             IF k = "query"
                             THEN get(arguments, "query", Empty)
                             ELSE get(arguments, "limit", "default")]],
             text |-> <<>>]
      [] name = "list_available_tools" ->
            [handler |-> [fn |-> "list_available_tools_impl",
                          args |-> NoArgs],
             text |-> <<>>]
      [] name \in {"get_last_N_user_interactions",
                   "get_last_N_tool_interactions",
                   "get_last_N_agent_interactions"} ->
            [handler |-> [fn |-> name,
                          args |-> [k \in {"n", "session_id"} |->
                             IF k = "n"
                             THEN get(arguments, "n", "default")
                             ELSE get(arguments, "session_id", None)]],
             text |-> <<>>]
      [] OTHER ->
            \* raise ValueError(f"Unknown tool: {name}"), caught below
            [handler |-> NoHandler,
             text |-> ErrorExecuting(<<"Unknown tool:", name>>)]

NoRequest == [name |-> "none", arguments |-> [k \in ArgKeys |-> Missing]]

\* the server before any call
ServerFresh ==
    /\ srvReq = NoRequest
    /\ srvHandler = NoHandler
    /\ srvText = <<>>
    /\ tool_errors = <<>>

\* handle_call_tool(name, arguments) where the implementation returns
CallTool ==
    /\ srvReq = NoRequest
    /\ \E name \in ToolNames, arguments \in Arguments :
        LET d == Dispatch(name, arguments)
        IN  /\ srvReq' = [name |-> name, arguments |-> arguments]
            /\ srvHandler' = d.handler
            /\ srvText' = IF d.handler = NoHandler THEN d.text
                          ELSE <<"result of", d.handler.fn>>
            /\ UNCHANGED tool_errors
            /\ UNCHANGED <<coreVars, regVars, storeVars, poolVars, simVars,
                   sumVars,
                   rowVars,
                   capVars,
                   trimVars,
                   resVars,
                   turnVars,
                   promptVars>>

\* handle_call_tool(name, arguments) where the implementation raises
CallToolRaises ==
    /\ srvReq = NoRequest
    /\ \E name \in ToolNames, arguments \in Arguments :
        LET d == Dispatch(name, arguments)
        IN  /\ d.handler # NoHandler
            /\ srvReq' = [name |-> name, arguments |-> arguments]
            /\ srvHandler' = d.handler
            /\ srvText' = ErrorExecuting(<<"exception text">>)
            /\ UNCHANGED tool_errors
            /\ UNCHANGED <<coreVars, regVars, storeVars, poolVars, simVars,
                   sumVars,
                   rowVars,
                   capVars,
                   trimVars,
                   resVars,
                   turnVars,
                   promptVars>>

\* the response was delivered: the server waits for the next request
CallToolReturned ==
    /\ srvReq # NoRequest
    /\ srvReq' = NoRequest
    /\ srvHandler' = NoHandler
    /\ srvText' = <<>>
    /\ UNCHANGED tool_errors
    /\ UNCHANGED <<coreVars, regVars, storeVars, poolVars, simVars,
                   sumVars,
                   rowVars,
                   capVars,
                   trimVars,
                   resVars,
                   turnVars,
                   promptVars>>

ServerNext ==
    \/ CallTool
    \/ CallToolRaises
    \/ CallToolReturned

(***************************************************************************)
(* Tool registry: tool() and discover() (ape/mcp/plugin.py)                *)
(***************************************************************************)
\* Names and functions a plugin may register with @tool.
PluginNames == {"read_resource", "hello"}
PluginFns == {"plugin_a", "plugin_b"}
RegNames ==
    {"execute_database_query", "get_conversation_history",
     "get_database_info", "search_conversations", "list_available_tools",
     "get_last_N_user_interactions", "get_last_N_tool_interactions",
     "get_last_N_agent_interactions", "read_resource", "summarize_text",
     "memory_add"} \cup PluginNames
RegMaxCalls == 3

Reg(name, fn) == [name |-> name, fn |-> fn]

\* the @tool decorations of ape/mcp/implementations_builtin.py, in order
BuiltinTools ==
    << Reg("execute_database_query", "execute_database_query"),
       Reg("get_conversation_history", "get_conversation_history"),
       Reg("get_database_info", "get_database_info"),
       Reg("search_conversations", "search_conversations"),
       Reg("list_available_tools", "list_available_tools"),
       Reg("get_last_N_user_interactions", "last_user_interactions"),
       Reg("get_last_N_tool_interactions", "last_tool_interactions"),
       Reg("get_last_N_agent_interactions", "last_agent_interactions"),
       Reg("read_resource", "read_resource_tool"),
       Reg("summarize_text", "summarize_text") >>
\* ape/mcp/implementations/memory.py and resources.py
MemoryTools == << Reg("memory_add", "handle_memory_add") >>
ResourceTools == << Reg("read_resource", "handle_read_resource") >>
\* the entry discover() writes itself
DiscoverEntry == Reg("read_resource", "read_resource")

\* tool(name, ...)(fn): _REGISTRY[name] = {"fn": fn, ...}
tool(registry, r) == [registry EXCEPT ![r.name] = r.fn]

RECURSIVE toolAll(_, _)
\* the decorations of one module, applied in order
toolAll(registry, regs) ==
    IF regs = <<>> THEN registry
    ELSE toolAll(tool(registry, Head(regs)), Tail(regs))

\* importlib.import_module(m): the decorations run on the first import only
ModuleTools(m) ==
    CASE m = "implementations_builtin" -> BuiltinTools
      [] m = "implementations.memory" -> MemoryTools
      [] m = "implementations.resources" -> ResourceTools

\* The modules discover() imports: the two below "implementations" load
\* only when that name is a package; otherwise ModuleNotFoundError leads to
\* the fallback import, which registers nothing.
DiscoverModules(isPackage) ==
    IF isPackage
    THEN <<"implementations_builtin", "implementations.memory",
           "implementations.resources">>
    ELSE <<"implementations_builtin">>

RECURSIVE NewRegs(_, _)
\* the registrations made by importing the modules ms, given what was
\* imported before
NewRegs(ms, done) ==
    IF ms = <<>> THEN <<>>
    ELSE (IF Head(ms) \in done THEN <<>> ELSE ModuleTools(Head(ms)))
         \o NewRegs(Tail(ms), done \cup {Head(ms)})

\* ---- calling the registered read_resource tool ----
\* MAX_LEN and ALLOWED_MIME of read_resource_tool
MAX_LEN == 65536
ALLOWED_MIME == {"application/json", "text/plain", "text/markdown"}
ALLOWED_SCHEMES == {"conversation://", "schema://"}
\* the URI prefixes some adapter of ape/resources/adapters matches
AdapterSchemes == {"conversation://", "schema://", "errors://", "memory://"}
\* what an adapter's read() may return: (mime, content); content by length
Mimes == ALLOWED_MIME \cup {"text/html"}
Sizes == {0, MAX_LEN, MAX_LEN + 1}
Resource(scheme, mime, size) == [scheme |-> scheme, mime |-> mime,
                                 size |-> size]
Resources ==
    {Resource(sc, m, n) : sc \in AdapterSchemes, m \in Mimes, n \in Sizes}
    \cup {Resource("file://", "text/plain", 0)}

\* what a call hands back: the content string, the (mime, content) tuple,
\* an error string, or an exception
ReadOut(fn, res, kind) == [fn |-> fn, res |-> res, kind |-> kind,
                           discovered |-> FALSE]
NoReadOut == ReadOut(None, Resource(None, None, 0), "none")

\* ape.resources.read_resource: ValueError without an adapter, else the
\* adapter's (mime, content) as it is
read_resource(res) ==
    IF res.scheme \notin AdapterSchemes THEN "raised" ELSE "tuple"

\* handle_read_resource: the content of the tuple, as it is
handle_read_resource(res) ==
    IF read_resource(res) = "raised" THEN "raised" ELSE "content"

\* read_resource_tool: scheme check, then size cap, then MIME whitelist
read_resource_tool(res) ==
    IF res.scheme \notin ALLOWED_SCHEMES THEN "security_error"
    ELSE IF read_resource(res) = "raised" THEN "error"
    ELSE IF res.size > MAX_LEN THEN "security_error"
    ELSE IF res.mime \notin ALLOWED_MIME THEN "security_error"
    ELSE "content"

ReadResourceFns == {"read_resource_tool", "handle_read_resource",
                    "read_resource"}
\* _REGISTRY["read_resource"]["fn"](uri)
CallRegistered(fn, res) ==
    CASE fn = "read_resource_tool" -> read_resource_tool(res)
      [] fn = "handle_read_resource" -> handle_read_resource(res)
      [] fn = "read_resource" -> read_resource(res)

\* discover() has run: its own entry is in the log of registrations
Discovered == \E i \in 1..Len(regLog) : regLog[i] = DiscoverEntry

\* the interpreter before any tool module is imported
RegistryFresh ==
    /\ _REGISTRY = [n \in RegNames |-> None]
    /\ imported = {}
    /\ implementations_is_package = FALSE
    /\ regLog = <<>>
    /\ regCalls = 0
    /\ readOut = NoReadOut

RegistryInit ==
    /\ _REGISTRY = [n \in RegNames |-> None]
    /\ imported = {}
    /\ implementations_is_package \in BOOLEAN
    /\ regLog = <<>>
    /\ regCalls = 0
    /\ readOut = NoReadOut

\* "from . import implementations_builtin" in ape/mcp/__init__.py
ImportBuiltin ==
    /\ "implementations_builtin" \notin imported
    /\ imported' = imported \cup {"implementations_builtin"}
    /\ _REGISTRY' = toolAll(_REGISTRY, BuiltinTools)
    /\ regLog' = regLog \o BuiltinTools
    /\ UNCHANGED <<implementations_is_package, regCalls, readOut>>
    /\ UNCHANGED <<coreVars, srvVars, storeVars, poolVars, simVars,
                   sumVars,
                   rowVars,
                   capVars,
                   trimVars,
                   resVars,
                   turnVars,
                   promptVars>>

\* a module decorates a function with @tool(name, ...)
RegisterTool ==
    /\ regCalls < RegMaxCalls
    /\ regCalls' = regCalls + 1
    /\ \E name \in PluginNames, fn \in PluginFns :
          /\ _REGISTRY' = tool(_REGISTRY, Reg(name, fn))
          /\ regLog' = Append(regLog, Reg(name, fn))
    /\ UNCHANGED <<imported, implementations_is_package, readOut>>
    /\ UNCHANGED <<coreVars, srvVars, storeVars, poolVars, simVars,
                   sumVars,
                   rowVars,
                   capVars,
                   trimVars,
                   resVars,
                   turnVars,
                   promptVars>>

\* discover(): the imports, the entry-points (each may decorate a tool or
\* fail to load), then the read_resource entry
Discover ==
    /\ regCalls < RegMaxCalls
    /\ regCalls' = regCalls + 1
    /\ LET ms == DiscoverModules(implementations_is_package)
           fromModules == NewRegs(ms, imported)
       IN  \E plugins \in {<<>>} \cup
                          {<<Reg(n, f)>> : n \in PluginNames,
                                           f \in PluginFns} :
              LET regs == fromModules \o plugins \o <<DiscoverEntry>>
              IN  /\ _REGISTRY' = toolAll(_REGISTRY, regs)
                  /\ regLog' = regLog \o regs
                  /\ imported' = imported \cup
                                   {ms[i] : i \in 1..Len(ms)}
    /\ UNCHANGED <<implementations_is_package, readOut>>
    /\ UNCHANGED <<coreVars, srvVars, storeVars, poolVars, simVars,
                   sumVars,
                   rowVars,
                   capVars,
                   trimVars,
                   resVars,
                   turnVars,
                   promptVars>>

\* an agent calls the tool registered under "read_resource"
CallReadResource ==
    /\ _REGISTRY["read_resource"] \in ReadResourceFns
    /\ regCalls < RegMaxCalls
    /\ regCalls' = regCalls + 1
    /\ \E res \in Resources :
          readOut' = [ReadOut(_REGISTRY["read_resource"], res,
                              CallRegistered(_REGISTRY["read_resource"], res))
                        EXCEPT !.discovered = Discovered]
    /\ UNCHANGED <<_REGISTRY, imported, implementations_is_package, regLog>>
    /\ UNCHANGED <<coreVars, srvVars, storeVars, poolVars, simVars,
                   sumVars,
                   rowVars,
                   capVars,
                   trimVars,
                   resVars,
                   turnVars,
                   promptVars>>

RegistryNext ==
    \/ ImportBuiltin
    \/ RegisterTool
    \/ Discover
    \/ CallReadResource

(***************************************************************************)
(* History table: save_messages / get_history and their async variants     *)
(* (ape/mcp/session_manager.py); chat turns (mcp_server_refined.py)        *)
(***************************************************************************)
StoreSession == "s1"
\* a message without a "timestamp" key
NoTimestamp == -1
\* the "timestamp" values a message may carry: absent, "" and a text
\* (numbered in their sort order; "" sorts before every other text)
Timestamps == {NoTimestamp, 0, 2}
\* datetime.now() when exploration starts; later than every explicit value
StoreStart == 10
StoreMaxOps == 2

Msg(role, content, ts) == [role |-> role, content |-> content,
                           timestamp |-> ts]
\* The message lists given to save_messages.
MsgLists ==
    {<<>>}
    \cup {<<Msg("user", "a", t)>> : t \in Timestamps}
    \cup {<<Msg("assistant", "b", t)>> : t \in Timestamps}
    \cup {<<Msg("user", "a", t), Msg("assistant", "b", u)>> :
             t \in Timestamps, u \in Timestamps}

Row(session, m, ts) == [session_id |-> session, role |-> m.role,
                        content |-> m.content, timestamp |-> ts]

\* DELETE FROM history WHERE session_id = ?
DeleteSession(rows, session) ==
    SelectSeq(rows, LAMBDA r : r.session_id # session)

\* INSERT of one message: msg.get("timestamp", datetime.now().isoformat())
InsertMsg(rows, session, m, clock) ==
    Append(rows, Row(session, m, IF m.timestamp = NoTimestamp THEN clock
                                 ELSE m.timestamp))

RECURSIVE InsertAll(_, _, _, _)
InsertAll(rows, session, ms, clock) ==
    IF ms = <<>> THEN rows
    ELSE InsertAll(InsertMsg(rows, session, Head(ms), clock + 1), session,
                   Tail(ms), clock + 1)

\* save_messages as a whole: DELETE, the INSERTs, commit
SaveMessages(rows, session, ms, clock) ==
    InsertAll(DeleteSession(rows, session), session, ms, clock)

\* x placed behind the rows whose timestamp is not greater
InsertSorted(sorted, x) ==
    LET k == Cardinality({i \in 1..Len(sorted) :
                            sorted[i].timestamp <= x.timestamp})
    IN  SubSeq(sorted, 1, k) \o <<x>> \o SubSeq(sorted, k + 1, Len(sorted))

RECURSIVE OrderByTimestamp(_)
\* ORDER BY timestamp ASC; rows with equal timestamps stay in rowid order
OrderByTimestamp(rows) ==
    IF rows = <<>> THEN <<>>
    ELSE InsertSorted(OrderByTimestamp(SubSeq(rows, 1, Len(rows) - 1)),
                      rows[Len(rows)])

\* get_history: SELECT ... WHERE session_id = ? ORDER BY timestamp ASC
GetHistory(rows, session) ==
    LET sel == OrderByTimestamp(SelectSeq(rows,
                   LAMBDA r : r.session_id = session))
    IN  [i \in 1..Len(sel) |->
            Msg(sel[i].role, sel[i].content, sel[i].timestamp)]

\* a_get_history: "async with get_db()" is called without the db_path that
\* get_db requires; the TypeError is caught and [] is returned
AGetHistory(rows, session) == <<>>

NoRead == [variant |-> "none", concurrent |-> FALSE, result |-> <<>>,
           old |-> <<>>, new |-> <<>>]
NoSave == [saved |-> FALSE, messages |-> <<>>]

\* a database that already holds rows of two sessions
StoreStartState(old) ==
    /\ history = <<Row("s2", Msg("user", "z", 0), 3)>>
                 \o [i \in 1..Len(old) |->
                       Row(StoreSession, old[i], old[i].timestamp)]
    /\ dbClock = StoreStart
    /\ wPc = "idle"
    /\ wTxn = <<>>
    /\ wPending = <<>>
    /\ wOld = <<>>
    /\ wNew = <<>>
    /\ lastSaved = NoSave
    /\ lastRead = NoRead
    /\ turnSnap = [taken |-> FALSE, messages |-> <<>>]
    /\ storeOps = 0

StoreInit ==
    \E old \in {<<>>, <<Msg("user", "a", 4)>>,
                <<Msg("user", "a", 4), Msg("assistant", "b", 5)>>} :
        StoreStartState(old)

StoreFresh == StoreStartState(<<>>)

storeLocals == <<wPc, wTxn, wPending, wOld, wNew>>

\* save_messages(session, ms): connect and DELETE inside a transaction
SaveBegin ==
    /\ wPc = "idle"
    /\ storeOps < StoreMaxOps
    /\ storeOps' = storeOps + 1
    /\ \E ms \in MsgLists :
          /\ wPending' = ms
          /\ wNew' = ms
    /\ wOld' = GetHistory(history, StoreSession)
    /\ wTxn' = DeleteSession(history, StoreSession)
    /\ wPc' = "inserting"
    /\ UNCHANGED <<history, dbClock, lastSaved, lastRead, turnSnap>>
    /\ UNCHANGED <<coreVars, srvVars, regVars, poolVars, simVars,
                   sumVars,
                   rowVars,
                   capVars,
                   trimVars,
                   resVars,
                   turnVars,
                   promptVars>>

\* one INSERT of the loop
SaveInsert ==
    /\ wPc = "inserting"
    /\ wPending # <<>>
    /\ dbClock' = dbClock + 1
    /\ wTxn' = InsertMsg(wTxn, StoreSession, Head(wPending), dbClock')
    /\ wPending' = Tail(wPending)
    /\ UNCHANGED <<history, wPc, wOld, wNew, lastSaved, lastRead, turnSnap,
                   storeOps>>
    /\ UNCHANGED <<coreVars, srvVars, regVars, poolVars, simVars,
                   sumVars,
                   rowVars,
                   capVars,
                   trimVars,
                   resVars,
                   turnVars,
                   promptVars>>

\* conn.commit(); conn.close()
SaveCommit ==
    /\ wPc = "inserting"
    /\ wPending = <<>>
    /\ history' = wTxn
    /\ lastSaved' = [saved |-> TRUE, messages |-> wNew]
    /\ wPc' = "idle"
    /\ wTxn' = <<>>
    /\ wOld' = <<>>
    /\ wNew' = <<>>
    /\ UNCHANGED <<dbClock, wPending, lastRead, turnSnap, storeOps>>
    /\ UNCHANGED <<coreVars, srvVars, regVars, poolVars, simVars,
                   sumVars,
                   rowVars,
                   capVars,
                   trimVars,
                   resVars,
                   turnVars,
                   promptVars>>

\* an execute raises: the exception is re-raised and the connection is
\* dropped without a commit, which rolls the transaction back
SaveRaise ==
    /\ wPc = "inserting"
    /\ wPc' = "idle"
    /\ wTxn' = <<>>
    /\ wPending' = <<>>
    /\ wOld' = <<>>
    /\ wNew' = <<>>
    /\ UNCHANGED <<history, dbClock, lastSaved, lastRead, turnSnap,
                   storeOps>>
    /\ UNCHANGED <<coreVars, srvVars, regVars, poolVars, simVars,
                   sumVars,
                   rowVars,
                   capVars,
                   trimVars,
                   resVars,
                   turnVars,
                   promptVars>>

\* a task is created for a_save_messages(session, ms)
ASaveBegin ==
    /\ wPc = "idle"
    /\ storeOps < StoreMaxOps
    /\ storeOps' = storeOps + 1
    /\ \E ms \in MsgLists : wNew' = ms
    /\ wOld' = GetHistory(history, StoreSession)
    /\ wPc' = "a_scheduled"
    /\ UNCHANGED <<history, dbClock, wTxn, wPending, lastSaved, lastRead,
                   turnSnap>>
    /\ UNCHANGED <<coreVars, srvVars, regVars, poolVars, simVars,
                   sumVars,
                   rowVars,
                   capVars,
                   trimVars,
                   resVars,
                   turnVars,
                   promptVars>>

\* the task runs: get_db() raises TypeError, which is logged and re-raised
ASaveRaise ==
    /\ wPc = "a_scheduled"
    /\ wPc' = "idle"
    /\ wOld' = <<>>
    /\ wNew' = <<>>
    /\ UNCHANGED <<history, dbClock, wTxn, wPending, lastSaved, lastRead,
                   turnSnap, storeOps>>
    /\ UNCHANGED <<coreVars, srvVars, regVars, poolVars, simVars,
                   sumVars,
                   rowVars,
                   capVars,
                   trimVars,
                   resVars,
                   turnVars,
                   promptVars>>

\* what a reader is told about the save running beside it
ReadOf(variant, result) ==
    [variant |-> variant, concurrent |-> wPc # "idle", result |-> result,
     old |-> IF wPc # "idle" THEN wOld
             ELSE GetHistory(history, StoreSession),
     new |-> IF wPc # "idle" THEN wNew ELSE <<>>]

\* get_history(session) on a connection of its own: the committed rows
ReadHistory ==
    /\ lastRead' = ReadOf("sync", GetHistory(history, StoreSession))
    /\ UNCHANGED <<history, dbClock, storeLocals, lastSaved, turnSnap,
                   storeOps>>
    /\ UNCHANGED <<coreVars, srvVars, regVars, poolVars, simVars,
                   sumVars,
                   rowVars,
                   capVars,
                   trimVars,
                   resVars,
                   turnVars,
                   promptVars>>

\* a_get_history(session)
AReadHistory ==
    /\ lastRead' = ReadOf("async", AGetHistory(history, StoreSession))
    /\ UNCHANGED <<history, dbClock, storeLocals, lastSaved, turnSnap,
                   storeOps>>
    /\ UNCHANGED <<coreVars, srvVars, regVars, poolVars, simVars,
                   sumVars,
                   rowVars,
                   capVars,
                   trimVars,
                   resVars,
                   turnVars,
                   promptVars>>

\* _chat_with_llm_impl(message, session_id, include_history), answered by a
\* tool or by the model: history (or []) extended by the two new messages
\* is saved
ChatTurn ==
    /\ wPc = "idle"
    /\ storeOps < StoreMaxOps
    /\ storeOps' = storeOps + 1
    /\ \E include_history \in BOOLEAN, answer \in {"tool", "llm"} :
          LET stored == GetHistory(history, StoreSession)
              conversation_history ==
                  (IF include_history THEN stored ELSE <<>>)
                  \o <<Msg("user", "q", NoTimestamp),
                       Msg("assistant", answer, NoTimestamp)>>
          IN  /\ turnSnap' = [taken |-> TRUE, messages |-> stored]
              /\ history' = SaveMessages(history, StoreSession,
                                         conversation_history, dbClock)
              /\ dbClock' = dbClock + Len(conversation_history)
              /\ lastSaved' = [saved |-> TRUE,
                               messages |-> conversation_history]
    /\ UNCHANGED <<storeLocals, lastRead>>
    /\ UNCHANGED <<coreVars, srvVars, regVars, poolVars, simVars,
                   sumVars,
                   rowVars,
                   capVars,
                   trimVars,
                   resVars,
                   turnVars,
                   promptVars>>

StoreNext ==
    \/ SaveBegin
    \/ SaveInsert
    \/ SaveCommit
    \/ SaveRaise
    \/ ASaveBegin
    \/ ASaveRaise
    \/ ReadHistory
    \/ AReadHistory
    \/ ChatTurn

(***************************************************************************)
(* Connection pools: get_db, get_pool, close_all_pools (ape/db_pool.py)    *)
(***************************************************************************)
\* _AioSqlitePool(db_path, size=5)
POOL_SIZE == 5
PoolTasks == {"t1", "t2"}
PoolPaths == {"db1", "db2"}
\* Pool objects created, close_all_pools() calls and scopes explored.
PoolMaxPools == 2
PoolMaxCloses == 1
PoolMaxScopes == 2

NoPool == 0
NoConn == 0
Range(q) == {q[i] : i \in 1..Len(q)}

\* The k-th connection a pool object opens (pool: its index in pools;
\* "opened" counts them), numbered apart from every other pool's.
ConnId(pool, k) == (k - 1) * (PoolMaxPools + 1) + pool

\* faulty variant: the connection is not put back
releaseDrop(queue, conn) == queue

\* _AioSqlitePool.release: await self._queue.put(conn)
release(queue, conn) == Append(queue, conn)

\* the process before any pool is created
PoolFresh ==
    /\ _POOLS = [path \in PoolPaths |-> NoPool]
    /\ pools = <<>>
    /\ openConns = {}
    /\ nextConn = 0
    /\ tpc = [t \in PoolTasks |-> "idle"]
    /\ tpool = [t \in PoolTasks |-> NoPool]
    /\ tconn = [t \in PoolTasks |-> NoConn]
    /\ texit = [t \in PoolTasks |-> "none"]
    /\ tinit = [t \in PoolTasks |-> 0]
    /\ closeLog = [done |-> FALSE, open |-> {}, checkedOut |-> {}]
    /\ poolCloses = 0
    /\ poolScopes = 0

\* get_db: pool = await get_pool(db_path), which creates the pool of a path
\* on first use
GetPool(t) ==
    /\ tpc[t] = "idle"
    /\ poolScopes < PoolMaxScopes
    /\ poolScopes' = poolScopes + 1
    /\ \E path \in PoolPaths :
          IF _POOLS[path] = NoPool
          THEN /\ Len(pools) < PoolMaxPools
               /\ pools' = Append(pools, [db_path |-> path, _queue |-> <<>>,
                                          _initialised |-> FALSE,
                                          opened |-> 0])
               /\ _POOLS' = [_POOLS EXCEPT ![path] = Len(pools) + 1]
               /\ tpool' = [tpool EXCEPT ![t] = Len(pools) + 1]
          ELSE /\ tpool' = [tpool EXCEPT ![t] = _POOLS[path]]
               /\ UNCHANGED <<_POOLS, pools>>
    /\ tpc' = [tpc EXCEPT ![t] = "got_pool"]
    /\ UNCHANGED <<openConns, nextConn, tconn, texit, tinit, closeLog,
                   poolCloses>>
    /\ UNCHANGED <<coreVars, srvVars, regVars, storeVars, simVars,
                   sumVars,
                   rowVars,
                   capVars,
                   trimVars,
                   resVars,
                   turnVars,
                   promptVars>>

\* conn = await pool.acquire(): without _initialised the task enters
\* _init_pool and starts its first aiosqlite.connect; else
\* self._queue.get(), which waits while the queue is empty
Acquire(t) ==
    /\ tpc[t] = "got_pool"
    /\ LET p == pools[tpool[t]]
       IN  IF ~p._initialised
           THEN /\ tinit' = [tinit EXCEPT ![t] = 0]
                /\ tpc' = [tpc EXCEPT ![t] = "init_connect"]
                /\ UNCHANGED <<pools, tconn>>
           ELSE /\ p._queue # <<>>
                /\ pools' = [pools EXCEPT ![tpool[t]]._queue = Tail(@)]
                /\ tconn' = [tconn EXCEPT ![t] = Head(p._queue)]
                /\ tpc' = [tpc EXCEPT ![t] = "body"]
                /\ UNCHANGED tinit
    /\ UNCHANGED <<_POOLS, openConns, nextConn, tpool, texit, closeLog,
                   poolCloses, poolScopes>>
    /\ UNCHANGED <<coreVars, srvVars, regVars, storeVars, simVars,
                   sumVars,
                   rowVars,
                   capVars,
                   trimVars,
                   resVars,
                   turnVars,
                   promptVars>>

\* _init_pool, loop body: conn = await aiosqlite.connect(self.db_path) and
\* the PRAGMA; other tasks run while these are awaited
InitConnect(t) ==
    /\ tpc[t] = "init_connect"
    /\ LET conn == ConnId(tpool[t], pools[tpool[t]].opened + 1)
       IN  /\ openConns' = openConns \cup {conn}
           /\ tconn' = [tconn EXCEPT ![t] = conn]
    /\ pools' = [pools EXCEPT ![tpool[t]].opened = @ + 1]
    /\ nextConn' = nextConn + 1
    /\ tpc' = [tpc EXCEPT ![t] = "init_put"]
    /\ UNCHANGED <<_POOLS, tpool, texit, tinit, closeLog, poolCloses,
                   poolScopes>>
    /\ UNCHANGED <<coreVars, srvVars, regVars, storeVars, simVars,
                   sumVars,
                   rowVars,
                   capVars,
                   trimVars,
                   resVars,
                   turnVars,
                   promptVars>>

\* for _ in range(self._size): the loop ends after size puts
InitDone(n) == n = POOL_SIZE

\* _init_pool, loop body: await self._queue.put(conn), which waits while
\* the queue is full; after the last put _initialised is set and acquire
\* takes the head of the queue
InitPut(t) ==
    /\ tpc[t] = "init_put"
    /\ LET p == pools[tpool[t]]
           q == Append(p._queue, tconn[t])
       IN  /\ Len(p._queue) < POOL_SIZE
           /\ tinit' = [tinit EXCEPT ![t] = @ + 1]
           /\ IF InitDone(tinit[t] + 1)
              THEN /\ pools' = [pools EXCEPT ![tpool[t]] =
                                  [p EXCEPT !._queue = Tail(q),
                                            !._initialised = TRUE]]
                   /\ tconn' = [tconn EXCEPT ![t] = Head(q)]
                   /\ tpc' = [tpc EXCEPT ![t] = "body"]
              ELSE /\ pools' = [pools EXCEPT ![tpool[t]]._queue = q]
                   /\ tconn' = [tconn EXCEPT ![t] = NoConn]
                   /\ tpc' = [tpc EXCEPT ![t] = "init_connect"]
    /\ UNCHANGED <<_POOLS, openConns, nextConn, tpool, texit, closeLog,
                   poolCloses, poolScopes>>
    /\ UNCHANGED <<coreVars, srvVars, regVars, storeVars, simVars,
                   sumVars,
                   rowVars,
                   capVars,
                   trimVars,
                   resVars,
                   turnVars,
                   promptVars>>

\* the body of the scope completes or raises; "finally" is entered
BodyEnds(t) ==
    /\ tpc[t] = "body"
    /\ \E how \in {"completed", "raised"} :
          texit' = [texit EXCEPT ![t] = how]
    /\ tpc' = [tpc EXCEPT ![t] = "releasing"]
    /\ UNCHANGED <<_POOLS, pools, openConns, nextConn, tpool, tconn, tinit,
                   closeLog, poolCloses, poolScopes>>
    /\ UNCHANGED <<coreVars, srvVars, regVars, storeVars, simVars,
                   sumVars,
                   rowVars,
                   capVars,
                   trimVars,
                   resVars,
                   turnVars,
                   promptVars>>

\* finally: await pool.release(conn); put() waits while the queue is full
Release(t) ==
    /\ tpc[t] = "releasing"
    /\ Len(pools[tpool[t]]._queue) < POOL_SIZE
    /\ pools' = [pools EXCEPT ![tpool[t]]._queue = release(@, tconn[t])]
    /\ tpc' = [tpc EXCEPT ![t] = "idle"]
    /\ tpool' = [tpool EXCEPT ![t] = NoPool]
    /\ tconn' = [tconn EXCEPT ![t] = NoConn]
    /\ UNCHANGED <<_POOLS, openConns, nextConn, texit, tinit, closeLog,
                   poolCloses, poolScopes>>
    /\ UNCHANGED <<coreVars, srvVars, regVars, storeVars, simVars,
                   sumVars,
                   rowVars,
                   capVars,
                   trimVars,
                   resVars,
                   turnVars,
                   promptVars>>

\* close_all_pools(): every pool of _POOLS closes the connections in its
\* queue and _POOLS is cleared
CloseAllPools ==
    /\ poolCloses < PoolMaxCloses
    /\ poolCloses' = poolCloses + 1
    /\ LET closing == {_POOLS[path] : path \in PoolPaths} \ {NoPool}
           closed == UNION {Range(pools[i]._queue) : i \in closing}
       IN  /\ pools' = [i \in 1..Len(pools) |->
                          IF i \in closing
                          THEN [pools[i] EXCEPT !._queue = <<>>,
                                                !._initialised = FALSE]
                          ELSE pools[i]]
           /\ openConns' = openConns \ closed
           /\ closeLog' = [done |-> TRUE, open |-> openConns',
                           checkedOut |->
                              {tconn[t] : t \in {u \in PoolTasks :
                                  tpc[u] \in {"body", "releasing"}}}]
    /\ _POOLS' = [path \in PoolPaths |-> NoPool]
    /\ UNCHANGED <<nextConn, tpc, tpool, tconn, texit, tinit, poolScopes>>
    /\ UNCHANGED <<coreVars, srvVars, regVars, storeVars, simVars,
                   sumVars,
                   rowVars,
                   capVars,
                   trimVars,
                   resVars,
                   turnVars,
                   promptVars>>

PoolNext ==
    \/ \E t \in PoolTasks : GetPool(t)
    \/ \E t \in PoolTasks : Acquire(t)
    \/ \E t \in PoolTasks : InitConnect(t)
    \/ \E t \in PoolTasks : InitPut(t)
    \/ \E t \in PoolTasks : BodyEnds(t)
    \/ \E t \in PoolTasks : Release(t)
    \/ CloseAllPools

(***************************************************************************)
(* Two-agent simulation: repetition detection (a2a_simulation.py)          *)
(***************************************************************************)
max_repeats == 3
max_recoveries == 3
\* the "turns" argument of triple_agent_simulation
turns == 10

\* A reply: its text outside <think> blocks in normal form (text), and how
\* the raw reply differs from that: a <think> block, capitals, extra blanks.
Reply(text, think, caps, blanks) ==
    [text |-> text, think |-> think, caps |-> caps, blanks |-> blanks]
\* Replies of APE-A and of APE-B explored.
RepliesA == {Reply("x", FALSE, FALSE, FALSE), Reply("x", TRUE, TRUE, TRUE),
             Reply("y", FALSE, FALSE, FALSE), Reply(Empty, TRUE, FALSE, FALSE)}
RepliesB == {Reply("p", FALSE, FALSE, FALSE), Reply("q", FALSE, TRUE, FALSE)}
\* prev_a or "": the empty text
EmptyReply == Reply(Empty, FALSE, FALSE, FALSE)
\* prev_a: str | None = None
NoReply == Reply(None, FALSE, FALSE, FALSE)
\* the seed message sent to APE-A in round 1
SeedMessage == Reply("seed", FALSE, TRUE, FALSE)
\* recovery_msg
recovery_msg == Reply("recovery", FALSE, TRUE, FALSE)

\* _strip_meta: <think> blocks removed, whitespace collapsed, lowercased
_strip_meta(r) == Reply(r.text, FALSE, FALSE, FALSE)

\* _strip_think: <think> blocks removed
_strip_think(r) == Reply(r.text, FALSE, r.caps, r.blanks)

\* if stripped == _strip_meta(prev or ""): rep += 1 else: rep = 0
CountRepeat(stripped, prev, n) ==
    IF stripped = _strip_meta(IF prev = NoReply THEN EmptyReply ELSE prev)
    THEN n + 1 ELSE 0

\* faulty variant: the loop is left one recovery late
MaxRecoveriesReachedLate(count) == count > max_recoveries

\* if recovery_count >= max_recoveries: break
MaxRecoveriesReached(count) == count >= max_recoveries

\* history: the last max_repeats + 1 entries of a run
KeepRun(run) == IF Len(run) > max_repeats + 1 THEN Tail(run) ELSE run

\* triple_agent_simulation before the first round: the client is connected,
\* both conversations hold the system prompt of _init_agent
SimFresh ==
    /\ round_idx = 0
    /\ prev_a = NoReply
    /\ prev_b = NoReply
    /\ rep_a = 0
    /\ rep_b = 0
    /\ recovery_count = 0
    /\ simDone = FALSE
    /\ recovered = FALSE
    /\ runA = <<>>
    /\ runB = <<>>
    /\ conv_a = <<"system">>
    /\ conv_b = <<"system">>
    /\ current_message = SeedMessage
    /\ force_summarize_calls = 0
    /\ mcp_session = TRUE
    /\ simExit = "none"

\* one round of the loop: both agents reply, the repeats are counted and
\* the recovery prompt is sent when either counter reaches max_repeats
SimRound ==
    /\ ~simDone
    /\ round_idx < turns
    /\ round_idx' = round_idx + 1
    /\ \E response_a \in RepliesA, response_b \in RepliesB :
          LET ra == CountRepeat(_strip_meta(response_a), prev_a, rep_a)
              rb == CountRepeat(_strip_meta(response_b), prev_b, rep_b)
              stuck == ra >= max_repeats \/ rb >= max_repeats
              ca == conv_a \o <<"user", "assistant">>
              cb == conv_b \o <<"user", "assistant">>
          IN  /\ prev_a' = response_a
              /\ prev_b' = response_b
              /\ current_message' = _strip_think(response_b)
              /\ recovered' = stuck
              \* conv.append({"role": "system", "content": recovery_msg})
              /\ conv_a' = IF stuck THEN Append(ca, "recovery") ELSE ca
              /\ conv_b' = IF stuck THEN Append(cb, "recovery") ELSE cb
              /\ rep_a' = IF stuck THEN 0 ELSE ra
              /\ rep_b' = IF stuck THEN 0 ELSE rb
              /\ recovery_count' = IF stuck THEN recovery_count + 1
                                   ELSE recovery_count
              /\ simDone' = (stuck /\ MaxRecoveriesReached(recovery_count'))
              /\ simExit' = IF simDone' THEN "recoveries" ELSE simExit
              \* after the break: await mcp_client.disconnect()
              /\ mcp_session' = IF simDone' THEN FALSE ELSE mcp_session
              /\ runA' = KeepRun(Append(IF recovered THEN <<>> ELSE runA,
                                        _strip_meta(response_a).text))
              /\ runB' = KeepRun(Append(IF recovered THEN <<>> ELSE runB,
                                        _strip_meta(response_b).text))
    /\ UNCHANGED force_summarize_calls
    /\ UNCHANGED <<coreVars, srvVars, regVars, storeVars, poolVars,
                   sumVars,
                   rowVars,
                   capVars,
                   trimVars,
                   resVars,
                   turnVars,
                   promptVars>>

\* chat_with_llm of APE-A or of APE-B raises: nothing catches it inside
\* triple_agent_simulation, the exception leaves the function
SimRaise ==
    /\ ~simDone
    /\ round_idx < turns
    /\ round_idx' = round_idx + 1
    /\ \E who \in {"a", "b"} :
          conv_a' = IF who = "b" THEN conv_a \o <<"user", "assistant">>
                    ELSE conv_a
    /\ simDone' = TRUE
    /\ simExit' = "raised"
    /\ recovered' = FALSE
    /\ UNCHANGED <<prev_a, prev_b, rep_a, rep_b, recovery_count,
                   runA, runB, conv_b, current_message,
                   force_summarize_calls, mcp_session>>
    /\ UNCHANGED <<coreVars, srvVars, regVars, storeVars, poolVars,
                   sumVars,
                   rowVars,
                   capVars,
                   trimVars,
                   resVars,
                   turnVars,
                   promptVars>>

\* range(1, turns + 1) is exhausted: cleanup
SimFinish ==
    /\ ~simDone
    /\ round_idx = turns
    /\ simDone' = TRUE
    /\ simExit' = "turns"
    /\ mcp_session' = FALSE
    /\ UNCHANGED <<round_idx, prev_a, prev_b, rep_a, rep_b, recovery_count,
                   recovered, runA, runB, conv_a, conv_b, current_message,
                   force_summarize_calls>>
    /\ UNCHANGED <<coreVars, srvVars, regVars, storeVars, poolVars,
                   sumVars,
                   rowVars,
                   capVars,
                   trimVars,
                   resVars,
                   turnVars,
                   promptVars>>

SimNext ==
    \/ SimRound
    \/ SimRaise
    \/ SimFinish

(***************************************************************************)
(* Summariser tool: summarize_text_impl (ape/mcp/implementations.py)       *)
(***************************************************************************)
\* A text is a sequence of sentences, a sentence a sequence of words, and a
\* word is given by the number of tokens it occupies.
INPUT_LIMIT == 4000
SUMMARY_MAX_TOKENS == 128

RECURSIVE SumWords(_)
SumWords(ws) == IF ws = <<>> THEN 0 ELSE Head(ws) + SumWords(Tail(ws))

\* count_tokens(text)
RECURSIVE count_tokens(_)
count_tokens(text) ==
    IF text = <<>> THEN 0
    ELSE SumWords(Head(text)) + count_tokens(Tail(text))

\* text.split(): the words of a text
RECURSIVE Words(_)
Words(text) == IF text = <<>> THEN <<>> ELSE Head(text) \o Words(Tail(text))

\* the sentences taken in order while the running total stays within cap;
\* the loop breaks at the first sentence that does not fit
RECURSIVE FitPrefix(_, _, _)
FitPrefix(sentences, used, cap) ==
    IF sentences = <<>> THEN <<>>
    ELSE IF used + SumWords(Head(sentences)) > cap THEN <<>>
    ELSE <<Head(sentences)>>
            \o FitPrefix(Tail(sentences), used + SumWords(Head(sentences)),
                         cap)

\* faulty variant: the overlong retry is returned as it is
SmartTruncateNone(summ, cap) == summ

\* "smart truncation" of an overlong summary: the leading sentences that
\* fit; the word chopping that follows works on the empty string and
\* changes nothing
SmartTruncate(summ, cap) == FitPrefix(summ, 0, cap)

\* while count_tokens(summary) > token_cap: drop the last word
RECURSIVE ChopWords(_, _)
ChopWords(ws, cap) ==
    IF SumWords(ws) > cap THEN ChopWords(SubSeq(ws, 1, Len(ws) - 1), cap)
    ELSE ws

\* words[: min(len(words), token_cap)]
FirstWords(text, cap) ==
    LET ws == Words(text)
    IN  SubSeq(ws, 1, IF Len(ws) < cap THEN Len(ws) ELSE cap)

\* "(no content)"
NoContentText == <<<<2, 2>>>>
\* "SECURITY_ERROR: Input too large for summarize_text tool. Maximum
\* allowed is 4000 tokens."
SecurityErrorText == <<<<4, 7>>, <<7>>>>

\* what summarize_text_impl hands to its caller: every outcome is a
\* returned string; calls counts the backend requests made, path tells
\* which branch produced the string
SumResult(text, calls, path) ==
    [text |-> text, raised |-> FALSE, calls |-> calls, path |-> path]

\* 3) heuristic fallback on the input text
Fallback(text, calls) ==
    LET fit == FitPrefix(text, 0, SUMMARY_MAX_TOKENS)
        summary_sentences ==
            IF fit = <<>> /\ text # <<>>
            THEN FirstWords(text, SUMMARY_MAX_TOKENS)
            ELSE Words(fit)
        summ == ChopWords(summary_sentences, SUMMARY_MAX_TOKENS)
    IN  IF summ = <<>> THEN SumResult(NoContentText, calls, "fallback")
        ELSE SumResult(<<summ>>, calls, "fallback")

\* the final check on what the model answered, and the return
FinalCheck(text, summ, calls) ==
    LET long == summ # <<>> /\ count_tokens(summ) > SUMMARY_MAX_TOKENS
        out == IF long THEN SmartTruncate(summ, SUMMARY_MAX_TOKENS)
               ELSE summ
    IN  IF out # <<>>
        THEN SumResult(out, calls, IF long THEN "truncated" ELSE "model")
        ELSE Fallback(text, calls)

\* What the backend does with one request: an answer, a timeout of
\* wait_for, or an exception.
BackendTexts == {<<>>, <<<<50>>>>, <<<<128>>>>, <<<<100>>, <<100>>>>,
                 <<<<200>>>>}
Backend == {[kind |-> "answer", text |-> t] : t \in BackendTexts}
              \cup {[kind |-> k, text |-> <<>>] : k \in {"timeout", "exception"}}

\* The inputs explored: a <think> block and the text outside it.
ThinkTexts == {<<>>, <<<<30>>>>, <<<<4000>>>>}
BodyTexts == {<<>>, <<<<10>>>>, <<<<100>>, <<20>>, <<50>>>>, <<<<200>>>>,
              <<<<100, 100>>>>, <<<<3000>>, <<1000>>>>,
              <<<<3000>>, <<1001>>>>}

\* 0) re.sub(r"<think>.*?</think>", "", text) unless SUMMARIZE_THOUGHTS
StripThoughts(input, thoughts) ==
    IF thoughts THEN input.think \o input.body ELSE input.body

summarize_text_impl(input, thoughts, resp1, resp2) ==
    LET text == StripThoughts(input, thoughts)
    IN  IF count_tokens(text) > INPUT_LIMIT
        THEN SumResult(SecurityErrorText, 0, "refused")
        ELSE IF resp1.kind # "answer" THEN Fallback(text, 1)
        ELSE IF /\ resp1.text # <<>>
                /\ count_tokens(resp1.text) > SUMMARY_MAX_TOKENS
             THEN IF resp2.kind # "answer" THEN Fallback(text, 2)
                  ELSE FinalCheck(text, resp2.text, 2)
             ELSE FinalCheck(text, resp1.text, 1)

NoSumRequest ==
    [input |-> [think |-> <<>>, body |-> <<>>], thoughts |-> FALSE,
     resp1 |-> [kind |-> "none", text |-> <<>>],
     resp2 |-> [kind |-> "none", text |-> <<>>]]
NoSumResult == SumResult(<<>>, 0, "none")

SumFresh ==
    /\ sumPc = "idle"
    /\ sumReq = NoSumRequest
    /\ sumRes = NoSumResult

\* one call of the summarize_text tool
SummarizeText ==
    /\ sumPc = "idle"
    /\ sumPc' = "returned"
    /\ \E think \in ThinkTexts, body \in BodyTexts, thoughts \in BOOLEAN,
          resp1 \in Backend, resp2 \in Backend :
          LET input == [think |-> think, body |-> body]
          IN  /\ sumReq' = [input |-> input, thoughts |-> thoughts,
                            resp1 |-> resp1, resp2 |-> resp2]
              /\ sumRes' = summarize_text_impl(input, thoughts, resp1, resp2)
    /\ UNCHANGED <<coreVars, srvVars, regVars, storeVars, poolVars,
                   simVars,
                   rowVars,
                   capVars,
                   trimVars,
                   resVars,
                   turnVars,
                   promptVars>>

\* the caller took the result
SummarizeReturned ==
    /\ sumPc = "returned"
    /\ sumPc' = "idle"
    /\ sumReq' = NoSumRequest
    /\ sumRes' = NoSumResult
    /\ UNCHANGED <<coreVars, srvVars, regVars, storeVars, poolVars,
                   simVars,
                   rowVars,
                   capVars,
                   trimVars,
                   resVars,
                   turnVars,
                   promptVars>>

SumNext ==
    \/ SummarizeText
    \/ SummarizeReturned

(***************************************************************************)
(* prune() called repeatedly (ape/core/memory.py)                          *)
(*                                                                         *)
(* The steps of WindowMemory with a record of the calls made in a row.     *)
(***************************************************************************)
MemSnapshot ==
    [messages |-> messages, summary |-> summary, db |-> db_summaries]

NoPrevPrune ==
    [inRow |-> 0, state |-> [messages |-> <<>>, summary |-> <<>>, db |-> <<>>],
     storageAbort |-> FALSE]
NoLoopStat == [runs |-> 0, len |-> 0]

RowFresh ==
    /\ prevPrune = NoPrevPrune
    /\ answered = {}
    /\ loopStat = NoLoopStat

\* the longest buffer prune() has to summarise entirely
PruneMaxLen == 3

\* a WindowMemory after n calls of add() with messages of one shape
RowStart(limit, sid, thoughts, n, sh) ==
    /\ ctx_limit = limit
    /\ session_id = sid
    /\ SUMMARIZE_THOUGHTS = thoughts
    /\ messages = [i \in 1..n |-> [id |-> i, tok |-> sh.tok, vis |-> sh.vis]]
    /\ summary = <<>>
    /\ db_summaries = <<>>
    /\ mpc = "idle"
    /\ memOp = "none"
    /\ chunk = <<>>
    /\ summary_text = NoText
    /\ memOutcome = "none"
    /\ cycleSnap = NoSnap
    /\ cycleFailed = "none"
    /\ memAdds = n

\* short buffers under a small budget
RowInit ==
    \E sid \in {None, "s1"}, thoughts \in BOOLEAN, limit \in CtxLimits,
       n \in 0..PruneMaxLen, sh \in MsgShapes :
        RowStart(limit, sid, thoughts, n, sh)

\* prune() is called: what the previous call of the row left is noted
RowCall ==
    /\ PruneCallBody
    /\ prevPrune' = [inRow |-> Min(prevPrune.inRow + 1, 2),
                     state |-> MemSnapshot,
                     storageAbort |-> (/\ memOutcome = "aborted"
                                       /\ cycleFailed = "storage")]
    /\ loopStat' = [runs |-> 0, len |-> Len(messages)]
    /\ UNCHANGED answered
    /\ UNCHANGED <<rlVars, agentVars, srvVars, regVars, storeVars, poolVars,
                   simVars, sumVars, capVars,
                   trimVars,
                   resVars,
                   turnVars,
                   promptVars>>

\* the while test; the loop body is entered once more when it holds
RowLoop ==
    /\ PruneLoopBody
    /\ loopStat' = IF PruneCond(messages, summary, ctx_limit)
                   THEN [loopStat EXCEPT !.runs = @ + 1]
                   ELSE loopStat
    /\ UNCHANGED <<prevPrune, answered>>
    /\ UNCHANGED <<rlVars, agentVars, srvVars, regVars, storeVars, poolVars,
                   simVars, sumVars, capVars,
                   trimVars,
                   resVars,
                   turnVars,
                   promptVars>>

\* summarize(): the summariser answers the same input the same way, so a
\* chunk that was just summarised gets the same text again; what it
\* returned for this chunk is noted
RowSummarize ==
    /\ MemSummarizeBody
    /\ \A p \in answered : p[1] = chunk => summary_text' = p[2]
    /\ answered' = {<<chunk, summary_text'>>}
    /\ UNCHANGED <<prevPrune, loopStat>>
    /\ UNCHANGED <<rlVars, agentVars, srvVars, regVars, storeVars, poolVars,
                   simVars, sumVars, capVars,
                   trimVars,
                   resVars,
                   turnVars,
                   promptVars>>

RowSave ==
    /\ MemSaveBody
    /\ UNCHANGED <<prevPrune, answered, loopStat>>
    /\ UNCHANGED <<rlVars, agentVars, srvVars, regVars, storeVars, poolVars,
                   simVars, sumVars, capVars,
                   trimVars,
                   resVars,
                   turnVars,
                   promptVars>>

RowDrop ==
    /\ MemDropBody
    /\ UNCHANGED <<prevPrune, answered, loopStat>>
    /\ UNCHANGED <<rlVars, agentVars, srvVars, regVars, storeVars, poolVars,
                   simVars, sumVars, capVars,
                   trimVars,
                   resVars,
                   turnVars,
                   promptVars>>

\* the steps inside a prune() call
RowSteps ==
    \/ RowLoop
    \/ RowSummarize
    \/ RowSave
    \/ RowDrop

RowNext ==
    \/ RowCall
    \/ RowSteps

(***************************************************************************)
(* AgentCore.discover_capabilities and its cache (ape/core/agent_core.py)  *)
(***************************************************************************)
\* timedelta(minutes=5); the clock counts minutes
TTL == 5
CapMaxClock == 7

\* What a listing holds: nothing, the server's answer (the server's tools
\* change between "v1" and "v2"), or the local prompt registry.
ServerVersions == {"v1", "v2"}
Catalog(tools, prompts, resources) ==
    [tools |-> tools, prompts |-> prompts, resources |-> resources]
\* capabilities = {"tools": [], "prompts": [], "resources": []}
EmptyCatalog == Catalog("empty", "empty", "empty")

\* _cached_capabilities / _caps_timestamp; "set" is hasattr(self, ...);
\* "failed" (history) tells whether a listing call of the discovery that
\* produced the catalog raised
Cache(catalog, ts, failed) ==
    [set |-> TRUE, catalog |-> catalog, ts |-> ts, failed |-> failed]
NoCache == [set |-> FALSE, catalog |-> EmptyCatalog, ts |-> 0,
            failed |-> FALSE]

\* what a call returned, whether it came from the cache and how old the
\* cached catalog was then
CapOut(catalog, fromCache, age) ==
    [returned |-> TRUE, catalog |-> catalog, fromCache |-> fromCache,
     age |-> age]
NoCapOut == [returned |-> FALSE, catalog |-> EmptyCatalog,
             fromCache |-> FALSE, age |-> 0]

\* (now - self._caps_timestamp) < TTL, given both attributes exist
CacheValid(cache, t) == cache.set /\ (t - cache.ts) < TTL

\* the three try blocks: a listing that raises leaves its list empty, but
\* a failed list_prompts falls back to the local prompt registry
Listed(v, tools_ok, prompts_ok, local_ok, resources_ok) ==
    Catalog(IF tools_ok THEN v ELSE "empty",
            IF prompts_ok THEN v
            ELSE IF local_ok THEN "local" ELSE "empty",
            IF resources_ok THEN v ELSE "empty")

CapFresh ==
    /\ capClock = 0
    /\ capCache = NoCache
    /\ capOut = NoCapOut

\* a minute passes
CapTick ==
    /\ capClock < CapMaxClock
    /\ capClock' = capClock + 1
    /\ UNCHANGED <<capCache, capOut>>
    /\ UNCHANGED <<coreVars, srvVars, regVars, storeVars, poolVars, simVars,
                   sumVars, rowVars,
                   trimVars,
                   resVars,
                   turnVars,
                   promptVars>>

\* discover_capabilities(): the cached catalog while it is valid; else the
\* empty catalog when the client is not connected; else the listings,
\* which are cached with the time of the call
DiscoverCapabilities ==
    /\ \E connected \in BOOLEAN, v \in ServerVersions,
          tools_ok \in BOOLEAN, prompts_ok \in BOOLEAN,
          local_ok \in BOOLEAN, resources_ok \in BOOLEAN :
          IF CacheValid(capCache, capClock)
          THEN /\ capOut' = CapOut(capCache.catalog, TRUE,
                                   capClock - capCache.ts)
               /\ UNCHANGED capCache
          ELSE IF ~connected
          THEN /\ capOut' = CapOut(EmptyCatalog, FALSE, 0)
               /\ UNCHANGED capCache
          ELSE LET capabilities == Listed(v, tools_ok, prompts_ok, local_ok,
                                         resources_ok)
               IN  /\ capCache' = Cache(capabilities, capClock,
                                        ~(tools_ok /\ prompts_ok
                                          /\ resources_ok))
                   /\ capOut' = CapOut(capabilities, FALSE, 0)
    /\ UNCHANGED capClock
    /\ UNCHANGED <<coreVars, srvVars, regVars, storeVars, poolVars, simVars,
                   sumVars, rowVars,
                   trimVars,
                   resVars,
                   turnVars,
                   promptVars>>

CapNext ==
    \/ CapTick
    \/ DiscoverCapabilities

(***************************************************************************)
(* Sliding-window guard of chat_with_llm before the payload is sent        *)
(* (ape/core/agent_core.py)                                                *)
(***************************************************************************)
\* a message by its role and count_tokens(content)
ChatMsg(role, tok) == [role |-> role, tok |-> tok]
\* the conversations handed to chat_with_llm: up to TrimMaxLen messages
TrimMaxLen == 3
TrimToks == {40, 100}
PriorMsgs == {ChatMsg(r, t) : r \in {"user", "assistant", "system"},
                              t \in TrimToks}
Conversations ==
    UNION {[1..n -> PriorMsgs] : n \in 0..TrimMaxLen}
\* context limits: none known (None), and limits around the margin
NoLimit == 0
TrimLimits == {NoLimit, 1000, 1124, 1224, 1324}
SystemPromptToks == {20}
UserToks == {10, 200}

\* [system prompt, *conversation, user message]
ExecConversation(sysTok, conversation, userTok) ==
    <<ChatMsg("system", sysTok)>> \o conversation
        \o <<ChatMsg("user", userTok)>>

RECURSIVE PopLastWhile(_, _, _)
\* faulty variant: pop() takes the newest message
PopLastWhile(pruned_conv, total, budget) ==
    IF pruned_conv # <<>> /\ total > budget
    THEN PopLastWhile(SubSeq(pruned_conv, 1, Len(pruned_conv) - 1),
                      total - pruned_conv[Len(pruned_conv)].tok, budget)
    ELSE pruned_conv

RECURSIVE PopWhile(_, _, _)
\* while pruned_conv and total > ctx_limit - margin: pop(0)
PopWhile(pruned_conv, total, budget) ==
    IF pruned_conv # <<>> /\ total > budget
    THEN PopWhile(Tail(pruned_conv), total - Head(pruned_conv).tok, budget)
    ELSE pruned_conv

\* the guard: nothing happens without a limit or within the budget
SlidingWindow(exec, limit) ==
    IF limit = NoLimit THEN exec
    ELSE LET total == SumTok(exec)
             budget == limit - CONTEXT_MARGIN_TOKENS
         IN  IF total > budget
             THEN <<exec[1]>>
                  \o PopWhile(SubSeq(exec, 2, Len(exec) - 1), total, budget)
                  \o <<exec[Len(exec)]>>
             ELSE exec

NoTrim == [called |-> FALSE, before |-> <<>>, limit |-> NoLimit,
           after |-> <<>>]

TrimFresh == trim = NoTrim

\* one turn builds exec_conversation and applies the guard
TrimCall ==
    /\ ~trim.called
    /\ \E sysTok \in SystemPromptToks, conversation \in Conversations,
          userTok \in UserToks, limit \in TrimLimits :
          LET exec == ExecConversation(sysTok, conversation, userTok)
          IN  trim' = [called |-> TRUE, before |-> exec, limit |-> limit,
                       after |-> SlidingWindow(exec, limit)]
    /\ UNCHANGED <<coreVars, srvVars, regVars, storeVars, poolVars, simVars,
                   sumVars, rowVars, capVars,
                   resVars,
                   turnVars,
                   promptVars>>

\* the turn is over
TrimReturned ==
    /\ trim.called
    /\ trim' = NoTrim
    /\ UNCHANGED <<coreVars, srvVars, regVars, storeVars, poolVars, simVars,
                   sumVars, rowVars, capVars,
                   resVars,
                   turnVars,
                   promptVars>>

TrimNext ==
    \/ TrimCall
    \/ TrimReturned

(***************************************************************************)
(* Resource registry: _match_adapter / read_resource and the built-in      *)
(* adapters (ape/resources/__init__.py, ape/resources/adapters/*.py)       *)
(*                                                                         *)
(* A URI is the sequence of its pieces: the scheme, the pieces of the      *)
(* path, then the query parameters.  String equality, startswith, endswith *)
(* and slicing are taken piece by piece.                                   *)
(***************************************************************************)
Tok(t, v) == [t |-> t, v |-> v]
Lit(text) == Tok("lit", text)
Limit(n) == Tok("limit", n)
SessionId(sid) == Tok("session_id", sid)
Q(text) == Tok("q", text)

LimitValues == {"1", "5", "50"}
SessionValues == {"s1", "s2"}
TableValues == {"history", "summaries"}

\* the URI forms of the built-in resources
ConversationURIs ==
    {<<Lit("conversation://"), Lit("sessions")>>,
     <<Lit("conversation://"), Lit("recent")>>}
    \cup {<<Lit("conversation://"), Lit("recent"), Limit(n)>> :
             n \in LimitValues}
    \cup {<<Lit("conversation://"), Lit(sid)>> : sid \in SessionValues}
    \cup {<<Lit("conversation://"), Lit(sid), Limit(n)>> :
             sid \in SessionValues, n \in LimitValues}
SchemaURIs ==
    {<<Lit("schema://"), Lit("tables")>>}
    \cup {<<Lit("schema://"), Lit(tb), Lit("/columns")>> : tb \in TableValues}
ErrorURIs ==
    {<<Lit("errors://"), Lit("recent")>>}
    \cup {<<Lit("errors://"), Lit("recent"), Limit(n)>> : n \in LimitValues}
    \cup {<<Lit("errors://"), Lit("recent"), Limit(n), SessionId(sid)>> :
             n \in LimitValues, sid \in SessionValues}
RequiredURIs == ConversationURIs \cup SchemaURIs \cup ErrorURIs
\* further URIs a caller may pass
OtherURIs ==
    {<<Lit("conversation://")>>,
     <<Lit("memory://"), Lit("semantic_search"), Q("x")>>,
     <<Lit("memory://"), Lit("add")>>,
     <<Lit("file://"), Lit("etc")>>}
URIs == RequiredURIs \cup OtherURIs

\* uri_patterns of the four adapters; "*" is the wildcard
AdapterNames == {"conversation", "errorlog", "memory", "schema"}
uri_patterns(adapter) ==
    CASE adapter = "conversation" ->
           << <<Lit("conversation://"), Lit("sessions")>>,
              <<Lit("conversation://"), Lit("recent")>>,
              <<Lit("conversation://"), Lit("*")>> >>
      [] adapter = "errorlog" -> << <<Lit("errors://"), Lit("recent")>> >>
      [] adapter = "memory" ->
           << <<Lit("memory://"), Lit("semantic_search")>>,
              <<Lit("memory://"), Lit("add")>> >>
      [] adapter = "schema" ->
           << <<Lit("schema://"), Lit("tables")>>,
              <<Lit("schema://"), Lit("*"), Lit("/columns")>> >>

\* _discover_adapters imports the adapter modules in the order glob() lists
\* them, which the file system decides
ImportOrders ==
    {o \in [1..4 -> AdapterNames] : \A i, j \in 1..4 : i # j => o[i] # o[j]}

RECURSIVE RegistryOf(_)
\* register(): REGISTRY[pattern] = instance, in import order
RegistryOf(order) ==
    IF order = <<>> THEN <<>>
    ELSE [i \in 1..Len(uri_patterns(Head(order))) |->
             [pattern |-> uri_patterns(Head(order))[i],
              adapter |-> Head(order)]]
         \o RegistryOf(Tail(order))

StartsWith(uri, prefix) ==
    /\ Len(uri) >= Len(prefix)
    /\ SubSeq(uri, 1, Len(prefix)) = prefix

RECURSIVE ReMatch(_, _)
\* re.match(re.escape(pattern).replace("\*", ".*"), uri): the pattern has to
\* match at the start of the URI, not all of it
ReMatch(pattern, uri) ==
    IF pattern = <<>> THEN TRUE
    ELSE IF Head(pattern) = Lit("*")
    THEN \E k \in 0..Len(uri) :
            ReMatch(Tail(pattern), SubSeq(uri, k + 1, Len(uri)))
    ELSE /\ uri # <<>>
         /\ Head(uri) = Head(pattern)
         /\ ReMatch(Tail(pattern), Tail(uri))

RECURSIVE _match_adapter(_, _)
\* the adapter of the first matching pattern, or None
_match_adapter(registry, uri) ==
    IF registry = <<>> THEN None
    ELSE IF ReMatch(Head(registry).pattern, uri) THEN Head(registry).adapter
    ELSE _match_adapter(Tail(registry), uri)

\* parse_qs(urlparse(uri).query), first value of each key; "" when absent
QueryGet(uri, key, default) ==
    LET hits == SelectSeq(uri, LAMBDA p : p.t = key)
    IN  IF hits = <<>> THEN default ELSE hits[1].v

\* what a read handed back: the resource read, the limit applied and the
\* session or table addressed (as URI pieces), or an exception
ReadOk(resource, limit, target) ==
    [kind |-> "ok", resource |-> resource, limit |-> limit,
     target |-> target]
ReadRaised == [kind |-> "raised", resource |-> "", limit |-> "",
               target |-> <<>>]

\* ConversationAdapter.read
ConversationRead(uri) ==
    IF uri = <<Lit("conversation://"), Lit("sessions")>>
    THEN ReadOk("sessions", "", <<>>)
    ELSE IF StartsWith(uri, <<Lit("conversation://"), Lit("recent")>>)
    THEN ReadOk("recent", QueryGet(uri, "limit", "20"), <<>>)
    ELSE IF StartsWith(uri, <<Lit("conversation://")>>)
    THEN \* session_id = uri.replace("conversation://", "", 1)
         IF Tail(uri) = <<>> THEN ReadRaised
         ELSE ReadOk("history", QueryGet(uri, "limit", "50"), Tail(uri))
    ELSE ReadRaised

\* ErrorLogAdapter.read
ErrorLogRead(uri) ==
    IF uri = <<Lit("errors://"), Lit("recent")>>
    THEN ReadOk("errors", QueryGet(uri, "limit", "20"),
                IF QueryGet(uri, "session_id", "") = "" THEN <<>>
                ELSE <<Lit(QueryGet(uri, "session_id", ""))>>)
    ELSE ReadRaised

\* SchemaAdapter.read
SchemaRead(uri) ==
    IF uri = <<Lit("schema://"), Lit("tables")>>
    THEN ReadOk("tables", "", <<>>)
    ELSE IF /\ StartsWith(uri, <<Lit("schema://")>>)
            /\ uri[Len(uri)] = Lit("/columns")
    THEN ReadOk("columns", "", SubSeq(uri, 2, Len(uri) - 1))
    ELSE ReadRaised

\* MemoryResourceAdapter.read: urlparse("memory://semantic_search?q=x").path
\* is "", never "/semantic_search"
MemoryRead(uri) == ReadRaised

\* read_resource(uri): ValueError without an adapter, else adapter.read
ResourceRead(registry, uri) ==
    LET adapter == _match_adapter(registry, uri)
    IN  CASE adapter = None -> ReadRaised
          [] adapter = "conversation" -> ConversationRead(uri)
          [] adapter = "errorlog" -> ErrorLogRead(uri)
          [] adapter = "schema" -> SchemaRead(uri)
          [] adapter = "memory" -> MemoryRead(uri)

\* the interpreter before ape.resources is imported
NoResRead == [registry |-> <<>>, called |-> FALSE, uri |-> <<>>,
              out |-> ReadRaised]

ResFresh == resRead = NoResRead

\* import ape.resources: _discover_adapters() fills REGISTRY
ImportAdapters ==
    /\ resRead.registry = <<>>
    /\ \E order \in ImportOrders :
          resRead' = [resRead EXCEPT !.registry = RegistryOf(order)]
    /\ UNCHANGED <<coreVars, srvVars, regVars, storeVars, poolVars, simVars,
                   sumVars, rowVars, capVars, trimVars,
                   turnVars,
                   promptVars>>

\* read_resource(uri)
ReadResource ==
    /\ resRead.registry # <<>>
    /\ ~resRead.called
    /\ \E uri \in URIs :
          resRead' = [resRead EXCEPT
                        !.called = TRUE, !.uri = uri,
                        !.out = ResourceRead(resRead.registry, uri)]
    /\ UNCHANGED <<coreVars, srvVars, regVars, storeVars, poolVars, simVars,
                   sumVars, rowVars, capVars, trimVars,
                   turnVars,
                   promptVars>>

ReadResourceReturned ==
    /\ resRead.called
    /\ resRead' = [resRead EXCEPT !.called = FALSE, !.uri = <<>>,
                                  !.out = ReadRaised]
    /\ UNCHANGED <<coreVars, srvVars, regVars, storeVars, poolVars, simVars,
                   sumVars, rowVars, capVars, trimVars,
                   turnVars,
                   promptVars>>

ResNext ==
    \/ ImportAdapters
    \/ ReadResource
    \/ ReadResourceReturned

(***************************************************************************)
(* Chat turns of several processes on one session: read the history,       *)
(* append the turn, save (mcp_server_refined.py, cli_chat.py).  Every MCP  *)
(* client starts a server process of its own; all share the database.      *)
(***************************************************************************)
TurnIds == {"A", "B"}
\* "server": _chat_with_llm_impl (get_history / save_messages);
\* "cli": APEChatCLI.chat_with_llm (a_get_history / a_save_messages)
TurnVariants == {"server", "cli"}

\* the two messages a turn appends
TurnMessages(p, variant) ==
    <<Msg("user", p, IF variant = "cli" THEN 0 ELSE NoTimestamp),
      Msg("assistant", p, IF variant = "cli" THEN 0 ELSE NoTimestamp)>>

NoTurn == [pc |-> "idle", variant |-> "server", include_history |-> TRUE,
           local |-> <<>>]

TurnsFresh == turnsOf = [p \in TurnIds |-> NoTurn]

\* the turn reads the stored history of the session (the server turn:
\* "if include_history else []")
TurnRead(p) ==
    /\ turnsOf[p].pc = "idle"
    /\ wPc = "idle"
    /\ \E variant \in TurnVariants, include_history \in BOOLEAN :
          /\ variant = "cli" => include_history
          /\ turnsOf' = [turnsOf EXCEPT ![p] =
                [pc |-> "read", variant |-> variant,
                 include_history |-> include_history,
                 local |-> IF variant = "cli"
                           THEN AGetHistory(history, StoreSession)
                           ELSE IF include_history
                           THEN GetHistory(history, StoreSession)
                           ELSE <<>>]]
    /\ UNCHANGED storeVars
    /\ UNCHANGED <<coreVars, srvVars, regVars, poolVars, simVars,
                   sumVars, rowVars, capVars, trimVars, resVars,
                   promptVars>>

\* all_messages = existing_history + current_turn
TurnAll(local, own) == local \o own

\* the turn saves what it read, extended by its own messages:
\* save_messages commits DELETE and INSERTs as one transaction;
\* a_save_messages raises the TypeError of get_db() and the turn fails
TurnSave(p) ==
    /\ turnsOf[p].pc = "read"
    /\ LET tn == turnsOf[p]
           all_messages == TurnAll(tn.local, TurnMessages(p, tn.variant))
       IN  IF tn.variant = "server"
           THEN /\ history' = SaveMessages(history, StoreSession,
                                           all_messages, dbClock)
                /\ dbClock' = dbClock + Len(all_messages)
                /\ turnsOf' = [turnsOf EXCEPT ![p].pc = "done"]
           ELSE /\ turnsOf' = [turnsOf EXCEPT ![p].pc = "failed"]
                /\ UNCHANGED <<history, dbClock>>
    /\ UNCHANGED <<storeLocals, lastSaved, lastRead, turnSnap, storeOps>>
    /\ UNCHANGED <<coreVars, srvVars, regVars, poolVars, simVars,
                   sumVars, rowVars, capVars, trimVars, resVars,
                   promptVars>>

TurnsNext ==
    \/ \E p \in TurnIds : TurnRead(p)
    \/ \E p \in TurnIds : TurnSave(p)

(***************************************************************************)
(* Prompt registry: load_prompts, register_prompt_directory, refresh and   *)
(* the watchdog handler (ape/prompts/__init__.py, ape/prompts/loader.py)   *)
(***************************************************************************)
\* _PROMPTS_PATH: the directory of the built-in templates
_PROMPTS_PATH == "templates"
\* directories a plugin may register; "missing" does not exist
PluginDirs == {"plugin_a", "plugin_b", "missing"}
PromptDirs == {_PROMPTS_PATH} \cup PluginDirs

\* the prompt names of the *.prompt.md files of a directory
PromptFiles(d) ==
    CASE d = _PROMPTS_PATH -> {"system", "summarize"}
      [] d = "plugin_a" -> {"review"}
      [] d = "plugin_b" -> {"system", "plan"}
      [] OTHER -> {}

\* how often the files of one directory are edited
PromptMaxRev == 1
\* calls made on the registry
PromptMaxOps == 4

\* load_prompts(directory) of an existing directory: name -> PromptTemplate;
\* a template is known by its directory and the revision of its file
load_prompts(disk, d) ==
    [n \in PromptFiles(d) |-> [dir |-> d, rev |-> disk[d]]]

\* load_prompts raises FileNotFoundError
DirMissing(d) == d = "missing"

KeyError == [dir |-> "KeyError", rev |-> 0]
\* get_prompt(name): _prompt_cache[name]
get_prompt(cache, name) ==
    IF name \in DOMAIN cache THEN cache[name] ELSE KeyError
\* list_prompts(): the values of _prompt_cache
list_prompts(cache) == {cache[n] : n \in DOMAIN cache}

NoPromptLog == [registered |-> {}, refreshes |-> 0, ops |-> 0]

\* the module after import without entry-point plugins
PromptsFresh ==
    /\ promptDisk = [d \in PromptDirs |-> 0]
    /\ _prompt_cache = load_prompts(promptDisk, _PROMPTS_PATH)
    /\ promptLog = NoPromptLog

\* register_prompt_directory(path): _prompt_cache.update(load_prompts(path));
\* an exception of load_prompts is printed
RegisterPromptDirectory ==
    /\ promptLog.ops < PromptMaxOps
    /\ \E d \in PluginDirs :
          IF DirMissing(d)
          THEN /\ _prompt_cache' = _prompt_cache
               /\ promptLog' = [promptLog EXCEPT !.ops = @ + 1]
          ELSE /\ _prompt_cache' =
                      load_prompts(promptDisk, d) @@ _prompt_cache
               /\ promptLog' = [promptLog EXCEPT !.ops = @ + 1,
                                    !.registered = @ \cup {d}]
    /\ UNCHANGED promptDisk
    /\ UNCHANGED <<coreVars, srvVars, regVars, storeVars, poolVars, simVars,
                   sumVars, rowVars, capVars, trimVars, resVars, turnVars>>

\* refresh(): _prompt_cache = load_prompts(_PROMPTS_PATH)
RefreshCache(disk) == load_prompts(disk, _PROMPTS_PATH)

\* a manual refresh()
Refresh ==
    /\ promptLog.ops < PromptMaxOps
    /\ _prompt_cache' = RefreshCache(promptDisk)
    /\ promptLog' = [promptLog EXCEPT !.ops = @ + 1, !.refreshes = @ + 1]
    /\ UNCHANGED promptDisk
    /\ UNCHANGED <<coreVars, srvVars, regVars, storeVars, poolVars, simVars,
                   sumVars, rowVars, capVars, trimVars, resVars, turnVars>>

\* a file of a plugin directory is edited; no observer watches it
EditPluginFile ==
    /\ \E d \in PluginDirs \ {"missing"} :
          /\ promptDisk[d] < PromptMaxRev
          /\ promptDisk' = [promptDisk EXCEPT ![d] = @ + 1]
    /\ UNCHANGED <<_prompt_cache, promptLog>>
    /\ UNCHANGED <<coreVars, srvVars, regVars, storeVars, poolVars, simVars,
                   sumVars, rowVars, capVars, trimVars, resVars, turnVars>>

\* something in the templates directory is modified and the observer calls
\* _ReloadHandler.on_modified(event): directories and files that are not
\* *.prompt.md are ignored, otherwise refresh()
OnModified ==
    /\ promptLog.ops < PromptMaxOps
    /\ \E is_directory \in BOOLEAN, is_prompt_md \in BOOLEAN :
          LET edited == ~is_directory /\ is_prompt_md
                           /\ promptDisk[_PROMPTS_PATH] < PromptMaxRev
          IN  /\ promptDisk' = IF edited
                               THEN [promptDisk EXCEPT ![_PROMPTS_PATH] = @ + 1]
                               ELSE promptDisk
              /\ IF ~is_directory /\ is_prompt_md
                 THEN /\ _prompt_cache' = RefreshCache(promptDisk')
                      /\ promptLog' = [promptLog EXCEPT !.ops = @ + 1,
                                           !.refreshes = @ + 1]
                 ELSE /\ _prompt_cache' = _prompt_cache
                      /\ promptLog' = [promptLog EXCEPT !.ops = @ + 1]
    /\ UNCHANGED <<coreVars, srvVars, regVars, storeVars, poolVars, simVars,
                   sumVars, rowVars, capVars, trimVars, resVars, turnVars>>

PromptsNext ==
    \/ RegisterPromptDirectory
    \/ Refresh
    \/ EditPluginFile
    \/ OnModified
(***************************************************************************)
(* Specifications                                                          *)
(***************************************************************************)
RestFresh ==
    /\ ServerFresh
    /\ RegistryFresh
    /\ StoreFresh
    /\ PoolFresh
    /\ SimFresh
    /\ SumFresh
    /\ RowFresh
    /\ CapFresh
    /\ TrimFresh
    /\ ResFresh
    /\ TurnsFresh
    /\ PromptsFresh

\* the limiter under load, beside a new memory and an idle agent
InitRL ==
    /\ RLInit
    /\ MemFresh
    /\ AgentFresh
    /\ RestFresh

\* a WindowMemory being filled, beside an unused limiter and an idle agent
InitMem ==
    /\ RLFresh
    /\ MemInit
    /\ AgentFresh
    /\ RestFresh

\* one chat_with_llm turn
InitAgent ==
    /\ AgentInit
    /\ RestFresh

\* the core subsystems at rest
CoreFresh ==
    /\ RLFresh
    /\ MemFresh
    /\ AgentFresh

InitServer ==
    /\ CoreFresh
    /\ ServerFresh
    /\ RegistryFresh
    /\ StoreFresh
    /\ PoolFresh
    /\ SimFresh
    /\ SumFresh
    /\ RowFresh
    /\ CapFresh
    /\ TrimFresh
    /\ ResFresh
    /\ TurnsFresh
    /\ PromptsFresh

InitRegistry ==
    /\ CoreFresh
    /\ ServerFresh
    /\ RegistryInit
    /\ StoreFresh
    /\ PoolFresh
    /\ SimFresh
    /\ SumFresh
    /\ RowFresh
    /\ CapFresh
    /\ TrimFresh
    /\ ResFresh
    /\ TurnsFresh
    /\ PromptsFresh

InitStore ==
    /\ CoreFresh
    /\ ServerFresh
    /\ RegistryFresh
    /\ StoreInit
    /\ PoolFresh
    /\ SimFresh
    /\ SumFresh
    /\ RowFresh
    /\ CapFresh
    /\ TrimFresh
    /\ ResFresh
    /\ TurnsFresh
    /\ PromptsFresh

InitPool ==
    /\ CoreFresh
    /\ ServerFresh
    /\ RegistryFresh
    /\ StoreFresh
    /\ PoolFresh
    /\ SimFresh
    /\ SumFresh
    /\ RowFresh
    /\ CapFresh
    /\ TrimFresh
    /\ ResFresh
    /\ TurnsFresh
    /\ PromptsFresh

InitSim ==
    /\ CoreFresh
    /\ ServerFresh
    /\ RegistryFresh
    /\ StoreFresh
    /\ PoolFresh
    /\ SimFresh
    /\ SumFresh
    /\ RowFresh
    /\ CapFresh
    /\ TrimFresh
    /\ ResFresh
    /\ TurnsFresh
    /\ PromptsFresh

InitSummarizer ==
    /\ CoreFresh
    /\ ServerFresh
    /\ RegistryFresh
    /\ StoreFresh
    /\ PoolFresh
    /\ SimFresh
    /\ SumFresh
    /\ RowFresh
    /\ CapFresh
    /\ TrimFresh
    /\ ResFresh
    /\ TurnsFresh
    /\ PromptsFresh

\* a WindowMemory on which prune() is called again and again
InitPrune ==
    /\ RLFresh
    /\ RowInit
    /\ AgentFresh
    /\ RestFresh

InitCaps ==
    /\ CoreFresh
    /\ ServerFresh
    /\ RegistryFresh
    /\ StoreFresh
    /\ PoolFresh
    /\ SimFresh
    /\ SumFresh
    /\ RowFresh
    /\ CapFresh
    /\ TrimFresh
    /\ ResFresh
    /\ TurnsFresh
    /\ PromptsFresh

InitTrim ==
    /\ CoreFresh
    /\ ServerFresh
    /\ RegistryFresh
    /\ StoreFresh
    /\ PoolFresh
    /\ SimFresh
    /\ SumFresh
    /\ RowFresh
    /\ CapFresh
    /\ TrimFresh
    /\ ResFresh
    /\ TurnsFresh
    /\ PromptsFresh

InitResources ==
    /\ CoreFresh
    /\ ServerFresh
    /\ RegistryFresh
    /\ StoreFresh
    /\ PoolFresh
    /\ SimFresh
    /\ SumFresh
    /\ RowFresh
    /\ CapFresh
    /\ TrimFresh
    /\ ResFresh
    /\ TurnsFresh
    /\ PromptsFresh

InitTurns ==
    /\ CoreFresh
    /\ ServerFresh
    /\ RegistryFresh
    /\ StoreInit
    /\ PoolFresh
    /\ SimFresh
    /\ SumFresh
    /\ RowFresh
    /\ CapFresh
    /\ TrimFresh
    /\ ResFresh
    /\ TurnsFresh
    /\ PromptsFresh

InitPrompts ==
    /\ CoreFresh
    /\ ServerFresh
    /\ RegistryFresh
    /\ StoreFresh
    /\ PoolFresh
    /\ SimFresh
    /\ SumFresh
    /\ RowFresh
    /\ CapFresh
    /\ TrimFresh
    /\ ResFresh
    /\ TurnsFresh
    /\ PromptsFresh

SpecRL == InitRL /\ [][RLNext]_vars
SpecMem == InitMem /\ [][MemNext]_vars
SpecAgent == InitAgent /\ [][AgentNext]_vars
SpecAgentFair == SpecAgent /\ WF_vars(AgentNext)
SpecServer == InitServer /\ [][ServerNext]_vars
SpecRegistry == InitRegistry /\ [][RegistryNext]_vars
SpecStore == InitStore /\ [][StoreNext]_vars
SpecPool == InitPool /\ [][PoolNext]_vars
SpecSim == InitSim /\ [][SimNext]_vars
SpecSummarizer == InitSummarizer /\ [][SumNext]_vars
SpecPrune == InitPrune /\ [][RowNext]_vars
SpecPruneFair == SpecPrune /\ WF_vars(RowSteps)
SpecCaps == InitCaps /\ [][CapNext]_vars
SpecTrim == InitTrim /\ [][TrimNext]_vars
SpecResources == InitResources /\ [][ResNext]_vars
SpecTurns == InitTurns /\ [][TurnsNext]_vars
SpecPrompts == InitPrompts /\ [][PromptsNext]_vars

(***************************************************************************)
(* Properties                                                              *)
(***************************************************************************)

\* C1: allow() accepts a call exactly when fewer than 60 calls of that
\* session were accepted within the last 60 seconds; so 60 calls in one
\* window are all accepted and the 61st in that window is rejected.
C1_AllowWithinCap ==
    rlLast.called => (rlLast.ok <=> rlLast.inWindow < CALLS_PER_MINUTE)

\* the 61st call, made exactly 60 seconds after 60 accepted ones, is rejected
C1_Witness ==
    /\ rlLast.called /\ ~rlLast.ok
    /\ rlLast.inWindow = CALLS_PER_MINUTE
    /\ now = WINDOW_SECONDS

Fits == tokens(messages, summary) <= ctx_limit - CONTEXT_MARGIN_TOKENS

PruneReturned == mpc = "idle" /\ memOp = "prune" /\ memOutcome # "none"

\* C2 (as stated): after prune() returns, whatever the summariser did,
\* tokens() <= ctx_limit - margin or messages is empty.
C2_PruneAlwaysFits == PruneReturned => (Fits \/ messages = <<>>)

\* C2 (amended): after prune() returns, tokens() <= ctx_limit - margin or
\* messages is empty, unless prune() aborted a cycle (empty summary text, or
\* an exception in the save step); then messages and summary are what they
\* were when that cycle started.
C2_PruneFitsUnlessAborted ==
    PruneReturned =>
        IF memOutcome = "aborted"
        THEN /\ messages = cycleSnap.messages
             /\ summary = cycleSnap.summary
        ELSE Fits \/ messages = <<>>

\* prune() returned normally after summarising part of the buffer
C2_Witness ==
    /\ PruneReturned /\ memOutcome = "completed"
    /\ messages # <<>> /\ summary # <<>>
    /\ tokens(cycleSnap.messages, cycleSnap.summary)
          > ctx_limit - CONTEXT_MARGIN_TOKENS

\* the messages a step removes from the front of the buffer
Removed == SubSeq(messages, 1, Len(messages) - Len(messages'))

\* C3: whenever prune() or force_summarize() removes messages, a Summary
\* Record holding exactly those messages and the summary text is already
\* in storage.
C3_RecordBeforeRemoval ==
    [][Len(messages') < Len(messages) =>
          \E i \in 1..Len(db_summaries) :
              /\ db_summaries[i].original_messages = Removed
              /\ db_summaries[i].summary_text = summary_text]_vars

\* C4: if the summariser call or the storage write fails during a prune()
\* cycle, messages and summary are what they were before the cycle and the
\* loop stops.
C4_FailurePreservesBuffer ==
    (memOp = "prune" /\ cycleFailed # "none") =>
        /\ messages = cycleSnap.messages
        /\ summary = cycleSnap.summary
        /\ mpc # "prune_loop"

\* what the last call's response carried as a signature
SigState ==
    IF lastCall.raw.shape # "env" \/ lastCall.raw.sig.form = "none"
    THEN "missing"
    ELSE IF lastCall.raw.sig.form # "jwt"
            \/ lastCall.raw.sig.key # MCP_JWT_KEY THEN "invalid"
    ELSE IF lastCall.at > lastCall.raw.sig.exp THEN "expired"
    ELSE IF lastCall.at < lastCall.raw.sig.exp THEN "valid"
    ELSE "boundary"

Payloads == {"p1", "p2", "rawtext", "rawenv", "decoded_json"}
LastResult == results[Len(results)].result

\* C5: a tool response with no signature, an expired signature or an
\* invalid signature is rejected: its payload content is never placed into
\* the tool message; a signature-verification error string is substituted.
C5_UnsignedRejected ==
    (lastCall.kind = "returned"
       /\ SigState \in {"missing", "expired", "invalid"}) =>
        /\ LastResult.kind = "sig_error"
        /\ LastResult.content \notin Payloads

\* C6: verification accepts an envelope only if the token decodes under the
\* process secret and the decoded payload equals the envelope's payload
\* field and the decoded result_id equals the envelope's result_id.
C6_EnvelopeBound ==
    (lastCall.kind = "returned" /\ LastResult.kind = "payload") =>
        /\ SigState \in {"valid", "boundary"}
        /\ lastCall.raw.sig.payload # Missing
        /\ lastCall.raw.sig.payload = lastCall.raw.payload
        /\ lastCall.raw.sig.result_id = lastCall.raw.result_id

\* the last response is an envelope as the signer issues it
IssuedBySigner ==
    /\ lastCall.kind = "returned"
    /\ lastCall.raw.shape = "env"
    /\ lastCall.raw.sig =
          sign(lastCall.raw.result_id, lastCall.raw.payload,
               lastCall.raw.sig.iat)

Age == lastCall.at - lastCall.raw.sig.iat

\* C7: an envelope presented more than 600 seconds after it was issued
\* fails verification as expired, whatever its payload; an envelope within
\* its lifetime and signed with the process secret verifies.
C7_ExpiryAfterLifetime ==
    IssuedBySigner =>
        /\ Age > SIG_LIFETIME =>
              LastResult = [kind |-> "sig_error", content |-> "expired"]
        /\ Age < SIG_LIFETIME =>
              LastResult = [kind |-> "payload",
                            content |-> lastCall.raw.payload]

\* an envelope 601 seconds old was presented and rejected as expired
C7_Witness ==
    /\ IssuedBySigner /\ Age = SIG_LIFETIME + 1
    /\ LastResult.kind = "sig_error"

\* C8: when the limiter rejects a tool call, call_tool is not invoked for
\* it, its result is the RATE_LIMIT_EXCEEDED string, the round counts as an
\* iteration and the remaining calls of the batch are still processed.
C8_RateLimitedCall ==
    /\ lastCall.kind = "rate_limited" =>
          /\ call_tool_count = lastCall.callsBefore
          /\ Len(results) > 0 /\ LastResult = RateLimitedText
    /\ agentPc = "dispatch" =>
          /\ iteration = Len(SelectSeq(exec_conversation,
                                        LAMBDA r : r = "tool")) + 1
          /\ is_connected => Len(results) + Len(tool_calls) = Len(batch)
    /\ (agentPc = "loop" /\ is_connected) =>
          /\ Len(tool_result_str.blocks) = Len(batch)
          /\ \A i \in 1..Len(batch) : tool_result_str.blocks[i].call = i

\* the first call of a batch of two was rejected, the second still
\* processed, and the round counted
C8_Witness ==
    /\ agentPc = "loop"
    /\ Len(tool_result_str.blocks) = 2
    /\ tool_result_str.blocks[1].result = RateLimitedText
    /\ lastCall.kind = "rate_limited"
    /\ iteration = 2

ToolMessages == Len(SelectSeq(exec_conversation, LAMBDA r : r = "tool"))

RoundsInv ==
    /\ iteration <= MAX_TOOLS_ITERATIONS
    /\ ToolMessages <= MAX_TOOLS_ITERATIONS
    /\ IF agentPc = "dispatch" THEN ToolMessages + 1 = iteration
       ELSE ToolMessages = iteration

\* C9: within one turn the number of tool messages appended to
\* exec_conversation equals the iteration counter (once the round's message
\* is appended) and never exceeds MAX_TOOLS_ITERATIONS; the turn terminates
\* when every model stream is finite, even if every stream asks for tools.
C9_BoundedRounds ==
    /\ []RoundsInv
    /\ <>(agentPc \in {"done", "raised"})

\* a turn that ended at the cap
C9_Witness ==
    /\ agentPc = "done"
    /\ iteration = MAX_TOOLS_ITERATIONS
    /\ ToolMessages = MAX_TOOLS_ITERATIONS

Capped == agentPc = "done" /\ has_tool_calls /\ ~LoopTest(iteration)

\* C10: when a turn ends because the iteration cap was reached, the
\* response is the model content accumulated so far followed by a note
\* stating that completion was capped.
C10_CappedNote ==
    Capped =>
        /\ Len(response) > 0
        /\ response[Len(response)] = "capped_note"
        /\ SubSeq(response, 1, Len(response) - 1) = cumulative_resp

\* the calls of the batch are taken in emission order: what was dispatched
\* so far is the batch's prefix and what remains is its suffix
InEmissionOrder ==
    /\ \A i \in 1..Len(results) : results[i].index = i
    /\ \A i \in 1..Len(tool_calls) :
          tool_calls[i] = batch[Len(results) + i]

\* the tool message holds one block per call of the batch, indexed 1..n in
\* emission order
OneBlockPerCall ==
    /\ tool_result_str.kind = "tool_output"
    /\ Len(tool_result_str.blocks) = Len(batch)
    /\ \A i \in 1..Len(batch) :
          /\ tool_result_str.blocks[i].index = i
          /\ tool_result_str.blocks[i].call = i
          /\ tool_result_str.blocks[i].name = batch[i].fn

RoundDone == agentPc = "loop" /\ batch # <<>>

\* C11 as stated: for the tool calls of one assistant message,
\* handle_tool_calls dispatches them in emission order and the tool message
\* holds exactly one tool_output block per call, indexed 1..n in emission
\* order, in every case.
C11_BlockPerCallAlways ==
    /\ (agentPc = "dispatch" /\ is_connected) => InEmissionOrder
    /\ RoundDone => OneBlockPerCall

\* C11 (amended): with a connected MCP client the calls are dispatched one
\* after another in emission order and the tool message holds exactly one
\* tool_output block per call, indexed 1..n in emission order, whether the
\* call was rate-limited, failed or failed verification; with a
\* disconnected client nothing is dispatched and the tool message is the
\* not-connected error string with no block.
C11_BlockPerCallWhenConnected ==
    /\ (agentPc = "dispatch" /\ is_connected) => InEmissionOrder
    /\ (RoundDone /\ is_connected) => OneBlockPerCall
    /\ (RoundDone /\ ~is_connected) =>
          /\ tool_result_str = NotConnectedText
          /\ results = <<>>
          /\ call_tool_count = 0

\* a batch of two whose first call was rate-limited or failed verification
\* and whose second call returned: two blocks
C11_Witness ==
    /\ RoundDone
    /\ is_connected
    /\ Len(batch) = 2
    /\ tool_result_str.blocks[1].result.kind \in {"rate_limited", "sig_error"}
    /\ tool_result_str.blocks[2].result.kind = "payload"

UnknownTool == srvReq.name \notin ToolNames \ {"nope"} /\ srvReq # NoRequest
Carries(text, code) == \E i \in 1..Len(text) : text[i] = code

\* C12: call_tool with a name that is not registered invokes no handler,
\* returns an error result carrying the code TOOL_NOT_FOUND and records one
\* tool error row whose tool field is that name.
C12_UnknownToolRecorded ==
    UnknownTool =>
        /\ srvHandler = NoHandler
        /\ Carries(srvText, "TOOL_NOT_FOUND")
        /\ Cardinality({i \in 1..Len(tool_errors) :
                          tool_errors[i].tool = srvReq.name}) = 1

\* the request restricted to the keys its tool declares
Declared(req) ==
    [k \in ArgKeys |-> IF k \in properties(req.name) THEN req.arguments[k]
                       ELSE Missing]

\* C13: the handler is invoked only with argument keys declared in the
\* tool's input_schema.properties: its parameters are all declared keys,
\* what it receives is what it would receive had the undeclared keys not
\* been sent, and a tool whose properties are empty is invoked with no
\* arguments.
C13_OnlyDeclaredKeys ==
    srvHandler # NoHandler =>
        /\ DOMAIN srvHandler.args \subseteq properties(srvReq.name)
        /\ srvHandler = Dispatch(srvReq.name, Declared(srvReq)).handler
        /\ properties(srvReq.name) = {} => srvHandler.args = NoArgs

\* a tool with declared properties called with a declared and an
\* undeclared key, and a tool without properties called with arguments
C13_Witness ==
    /\ srvHandler # NoHandler
    /\ srvReq.arguments["bogus"] # Missing
    /\ \/ /\ srvReq.name = "search_conversations"
          /\ srvReq.arguments["query"] = "a"
          /\ srvHandler.args["query"] = "a"
       \/ /\ srvReq.name = "get_database_info"
          /\ srvReq.arguments["query"] = "a"

\* the function first registered under name, or None
FirstRegistered(name) ==
    LET is == {i \in 1..Len(regLog) : regLog[i].name = name}
    IN  IF is = {} THEN None
        ELSE regLog[CHOOSE i \in is : \A j \in is : i <= j].fn

\* C14: registering a tool under a name already in the registry is a fatal
\* startup error: after any sequence of registrations and discover(), no
\* registry entry has been replaced by a later registration of the same
\* name, so every entry is still the function first registered under it.
C14_NoSilentReplace ==
    \A name \in RegNames : _REGISTRY[name] = FirstRegistered(name)

\* roles and contents of a message list, in order
RolesContents(ms) == [i \in 1..Len(ms) |-> <<ms[i].role, ms[i].content>>]

\* C15: while one task runs save_messages(s, new) over a stored set old, a
\* concurrent get_history(s) returns either exactly old or exactly new,
\* never an empty or partial mixture, for the synchronous and the pooled
\* asynchronous variant alike.
C15_ReaderSeesOldOrNew ==
    lastRead.concurrent =>
        \/ lastRead.result = lastRead.old
        \/ RolesContents(lastRead.result) = RolesContents(lastRead.new)

\* C16: save_messages(s, ms) followed by get_history(s) returns the
\* messages of ms with the same roles and contents in the same order,
\* whatever timestamps the messages carry.
C16_RoundTrip ==
    (lastSaved.saved /\ wPc = "idle") =>
        RolesContents(GetHistory(history, StoreSession))
            = RolesContents(lastSaved.messages)

\* C17: across chat turns on a session (any include_history value,
\* tool-executed or LLM-answered), every message already stored for the
\* session is still in the stored history afterwards, unchanged.
C17_TurnsKeepHistory ==
    turnSnap.taken =>
        \A i \in 1..Len(turnSnap.messages) :
            \E j \in 1..Len(history) :
                /\ history[j].session_id = StoreSession
                /\ Msg(history[j].role, history[j].content,
                       history[j].timestamp) = turnSnap.messages[i]

\* no task is inside a get_db scope or on its way in or out
AllScopesExited == \A t \in PoolTasks : tpc[t] = "idle"

\* the pool holds POOL_SIZE different open connections
FullSet(p) ==
    /\ Len(p._queue) = POOL_SIZE
    /\ Cardinality(Range(p._queue)) = POOL_SIZE
    /\ Range(p._queue) \subseteq openConns

PoolsFullWhenIdle ==
    AllScopesExited =>
        \A path \in PoolPaths :
            (_POOLS[path] # NoPool /\ pools[_POOLS[path]]._initialised)
                => FullSet(pools[_POOLS[path]])

\* a scope exits: its connection is in the queue of the pool it came from
PutBackOnExit ==
    \A t \in PoolTasks :
        (tpc[t] = "releasing" /\ tpc'[t] = "idle") =>
            /\ tconn[t] \in Range(pools'[tpool[t]]._queue)
            /\ tconn[t] \notin Range(pools[tpool[t]]._queue)

\* C18: every connection acquired through the get_db scope is put back
\* into its pool when the scope exits, whether the body completed or
\* raised; once all scopes have exited, the pool of a database path again
\* holds exactly its full set of connections.
C18_ScopedRelease ==
    /\ []PoolsFullWhenIdle
    /\ [][PutBackOnExit]_vars

\* both tasks have left a scope on the same pool, one after its body
\* raised, and the pool is full again
C18_Witness ==
    /\ AllScopesExited
    /\ texit["t1"] = "raised"
    /\ texit["t2"] = "completed"
    /\ Len(pools) = 1
    /\ _POOLS["db1"] = 1
    /\ FullSet(pools[1])
    /\ pools[1]._queue # [i \in 1..POOL_SIZE |-> ConnId(1, i)]

\* C19: after close_all_pools() completes, no connection ever opened by
\* any pool is still open, including connections that were checked out by
\* a task at the moment close_all_pools() ran.
C19_CloseLeavesNothingOpen ==
    closeLog.done => closeLog.open = {}

\* the number of equal entries at the end of run
Consecutive(run) ==
    IF run = <<>> THEN 0
    ELSE LET n == Len(run)
             same == {k \in 1..n : \A i \in (n - k + 1)..n : run[i] = run[n]}
         IN  CHOOSE k \in same : \A j \in same : j <= k

\* C20: the orchestrator triggers recovery in exactly the round in which
\* some agent's normalised reply is the k-th consecutive identical reply of
\* that agent, with k = 3, and in no earlier or later round.
C20_RecoveryAtKth ==
    round_idx > 0 =>
        (recovered <=> (Consecutive(runA) = max_repeats
                        \/ Consecutive(runB) = max_repeats))

\* C21: each time recovery triggers, force_summarize() is called on every
\* agent's memory, every agent's in-memory conversation is cleared, the
\* next input fed to the agents is the new-direction message, and the
\* recovery counter is incremented by one.
C21_RecoveryActions ==
    /\ [](recovered =>
            /\ force_summarize_calls = 2 * recovery_count
            /\ conv_a = <<>>
            /\ conv_b = <<>>
            /\ current_message = recovery_msg)
    /\ [][recovered' => recovery_count' = recovery_count + 1]_vars

\* C22: the orchestrator stops running rounds as soon as the recovery
\* counter reaches max_recoveries and otherwise after turns rounds; the
\* counter never exceeds max_recoveries and no agent is called after the
\* terminating recovery.
C22_StopsAtMaxRecoveries ==
    /\ [](recovery_count <= max_recoveries)
    /\ [](recovery_count = max_recoveries => simDone)
    /\ [](simExit = "recoveries" => recovery_count = max_recoveries)
    /\ [](simExit = "turns" =>
             round_idx = turns /\ recovery_count < max_recoveries)
    /\ [](round_idx <= turns)
    /\ [][simDone => /\ round_idx' = round_idx
                     /\ conv_a' = conv_a
                     /\ conv_b' = conv_b]_vars

\* the loop was left by the third recovery with rounds to spare
C22_Witness ==
    /\ simExit = "recoveries"
    /\ recovery_count = max_recoveries
    /\ recovered
    /\ round_idx < turns

\* C23: on every way the orchestrator ends (rounds exhausted, max
\* recoveries reached, or an exception raised by an agent turn) the MCP
\* connection is closed before it returns or propagates the error.
C23_ClosedOnEveryExit ==
    simDone => ~mcp_session

\* the text the summariser works on, after the <think> blocks are handled
SumInput == StripThoughts(sumReq.input, sumReq.thoughts)

\* C24: for every input of at most 4000 tokens and every backend behaviour
\* (short answer, overlong answer on the first and the second attempt,
\* empty answer, timeout, exception), a non-empty result of summarize_text
\* has at most SUMMARY_MAX_TOKENS tokens.
C24_BoundedSummary ==
    (/\ sumPc = "returned"
     /\ count_tokens(SumInput) <= INPUT_LIMIT
     /\ sumRes.text # <<>>)
        => count_tokens(sumRes.text) <= SUMMARY_MAX_TOKENS

\* both attempts were overlong and the second one was cut to fit
C24_Witness ==
    /\ sumPc = "returned"
    /\ count_tokens(SumInput) <= INPUT_LIMIT
    /\ sumRes.calls = 2
    /\ sumRes.path = "truncated"
    /\ count_tokens(sumReq.resp2.text) > SUMMARY_MAX_TOKENS
    /\ sumRes.text # <<>>

\* C25: summarize_text on an input exceeding 4000 tokens refuses with an
\* INPUT_TOO_LARGE error outcome, distinct from a successful summary
\* result, without calling the backend model.
C25_InputTooLargeError ==
    (sumPc = "returned" /\ count_tokens(SumInput) > INPUT_LIMIT)
        => /\ sumRes.raised
           /\ sumRes.calls = 0

\* the second prune() of a row has returned
SecondReturned ==
    /\ mpc = "idle" /\ memOp = "prune" /\ memOutcome # "none"
    /\ prevPrune.inRow = 2

\* C26 (as stated): calling prune() twice in a row with no add() in between
\* leaves messages, summary and the stored Summary Records exactly as they
\* were after the first call, for every starting state and a summariser
\* that answers the same input the same way.
C26_PruneIdempotent ==
    SecondReturned => MemSnapshot = prevPrune.state

\* C26 (amended): the same, unless the first call was aborted by an
\* exception of the storage step (the second call may then succeed).
C26_PruneIdempotentUnlessStorage ==
    (SecondReturned /\ ~prevPrune.storageAbort)
        => MemSnapshot = prevPrune.state

\* the second call ran the loop body again, got the same empty answer and
\* left everything as it was
C26_Witness ==
    /\ SecondReturned
    /\ ~prevPrune.storageAbort
    /\ loopStat.runs > 0
    /\ memOutcome = "aborted"
    /\ messages # <<>>

\* C30: prune() terminates from every state and for every summariser
\* behaviour that itself returns: each loop iteration either removes at
\* least one message or exits the loop, so the loop body runs at most
\* len(messages) times.
C30_PruneTerminates ==
    /\ [](loopStat.runs <= loopStat.len)
    /\ [][(mpc # "prune_loop" /\ mpc' = "prune_loop" /\ mpc # "idle")
             => Len(messages') < Len(messages)]_vars
    /\ (mpc # "idle") ~> (mpc = "idle")

\* a call that ran the loop body once for every message it was called with
C30_Witness ==
    /\ mpc = "idle" /\ memOp = "prune" /\ memOutcome = "completed"
    /\ loopStat.len > 1
    /\ loopStat.runs = loopStat.len

ForceReturned == mpc = "idle" /\ memOp = "force" /\ memOutcome # "none"

\* what force_summarize() leaves when it summarised the buffer it was
\* called with
ForceCleared ==
    /\ messages = <<>>
    /\ cycleSnap.messages # <<>> =>
          /\ chunk = cycleSnap.messages
          /\ summary_text # NoText
          /\ summary = Append(cycleSnap.summary, summary_text)

\* C27 (as stated): force_summarize() summarises the whole buffer
\* regardless of the token budget and leaves messages empty when it
\* returns, with the summary of the removed messages appended to summary.
C27_ForceClears == ForceReturned => ForceCleared

\* C27 (amended): the same, unless the summariser returned an empty text
\* or the storage step raised; then messages and summary are what they
\* were when force_summarize() was called.
C27_ForceClearsUnlessAborted ==
    ForceReturned =>
        IF memOutcome = "aborted"
        THEN /\ messages = cycleSnap.messages
             /\ summary = cycleSnap.summary
        ELSE ForceCleared

\* a buffer that was within the budget was summarised and cleared
C27_Witness ==
    /\ ForceReturned /\ memOutcome = "completed"
    /\ Len(cycleSnap.messages) > 1
    /\ tokens(cycleSnap.messages, cycleSnap.summary)
          <= ctx_limit - CONTEXT_MARGIN_TOKENS
    /\ messages = <<>>
    /\ summary = Append(cycleSnap.summary, summary_text)

\* ---- C28 ----
\* the resource of the last call is inside the whitelist and the cap
Permitted(res) == res.mime \in ALLOWED_MIME /\ res.size <= MAX_LEN
\* C28: after discover(), a call of the registered read_resource tool that
\* hands data back hands back the content string of a resource whose MIME
\* type is whitelisted and whose size is at most 64 KiB; for any other
\* resource the result is an error string.
C28_ResourceGuards ==
    (readOut.kind # "none" /\ readOut.discovered) =>
        /\ readOut.kind \in {"content", "security_error", "error"}
        /\ readOut.kind = "content" => Permitted(readOut.res)
\* the same guards hold for calls that reach read_resource_tool, the
\* registration in place before discover()
C28_GuardsOfBuiltin ==
    readOut.fn = "read_resource_tool" =>
        /\ readOut.kind \in {"content", "security_error", "error"}
        /\ readOut.kind = "content" => Permitted(readOut.res)

\* ---- C29 ----
\* a catalog handed out from the cache was younger than the TTL
C29_CachedOnlyWhileYoung ==
    (capOut.returned /\ capOut.fromCache) => capOut.age < TTL
\* C29: discover_capabilities() returns a cached catalog only while it is
\* younger than 5 minutes, and the cache never holds a catalog produced by
\* a discovery in which a listing call failed.
C29_CacheInvalidatedOnError ==
    /\ C29_CachedOnlyWhileYoung
    /\ capCache.set => ~capCache.failed
\* a turn was served from the cache a listing failure left behind
C29_StaleAfterFailure ==
    capOut.returned /\ capOut.fromCache /\ capCache.failed

\* ---- C31 ----
\* the messages between the system prompt and the latest user message
Prior(exec) == SubSeq(exec, 2, Len(exec) - 1)
\* C31: after the sliding-window guard ran with a context limit, the
\* conversation starts with the system prompt and ends with the latest user
\* message, the survivors are a suffix of the prior messages (the removed
\* ones are its oldest prefix), and the total is within ctx_limit - margin
\* or no prior message remains.
C31_SlidingWindow ==
    (trim.called /\ trim.limit # NoLimit) =>
        /\ Len(trim.after) >= 2
        /\ trim.after[1] = trim.before[1]
        /\ trim.after[Len(trim.after)] = trim.before[Len(trim.before)]
        /\ \E k \in 0..Len(Prior(trim.before)) :
              Prior(trim.after) =
                  SubSeq(Prior(trim.before), k + 1, Len(Prior(trim.before)))
        /\ \/ SumTok(trim.after) <= trim.limit - CONTEXT_MARGIN_TOKENS
           \/ Prior(trim.after) = <<>>
\* the guard removed the oldest message and kept two different later ones
C31_Witness ==
    /\ trim.called
    /\ Len(trim.before) = 5
    /\ Len(trim.after) = 4
    /\ trim.after[2] # trim.after[3]
    /\ trim.before[2] # trim.before[4]

\* ---- C32 ----
\* the pieces of the URI before the query string
Base(uri) == SelectSeq(uri, LAMBDA p : p.t = "lit")
\* the resource a required URI form addresses, with its query parameters
Addressed(uri) ==
    LET base == Base(uri)
        sid == QueryGet(uri, "session_id", "")
    IN  CASE base = <<Lit("conversation://"), Lit("sessions")>> ->
               ReadOk("sessions", "", <<>>)
          [] base = <<Lit("conversation://"), Lit("recent")>> ->
               ReadOk("recent", QueryGet(uri, "limit", "20"), <<>>)
          [] base = <<Lit("schema://"), Lit("tables")>> ->
               ReadOk("tables", "", <<>>)
          [] base = <<Lit("errors://"), Lit("recent")>> ->
               ReadOk("errors", QueryGet(uri, "limit", "20"),
                      IF sid = "" THEN <<>> ELSE <<Lit(sid)>>)
          [] Head(base) = Lit("schema://") /\ Len(base) = 3 ->
               ReadOk("columns", "", <<base[2]>>)
          [] OTHER ->
               ReadOk("history", QueryGet(uri, "limit", "50"), <<base[2]>>)
\* C32: for every required built-in URI form, with or without a query
\* string, read_resource finds an adapter and the adapter reads the
\* addressed resource with the query parameters applied.
C32_RequiredFormsResolve ==
    (resRead.called /\ resRead.uri \in RequiredURIs) =>
        resRead.out = Addressed(resRead.uri)
\* the same for the required forms that carry no query string and for
\* conversation://recent?limit=N
C32_PlainFormsResolve ==
    (/\ resRead.called
     /\ resRead.uri \in RequiredURIs
     /\ \/ Base(resRead.uri) = resRead.uri
        \/ Base(resRead.uri) = <<Lit("conversation://"), Lit("recent")>>) =>
        resRead.out = Addressed(resRead.uri)

\* ---- C33 ----
\* the last tool call failed: call_tool raised or the response was not
\* verified
LastCallFailed ==
    \/ lastCall.kind = "raised"
    \/ lastCall.kind = "returned" /\ lastCall.text.kind # "payload"
\* the one row expected for the last call
LastErrorRowFits ==
    /\ Len(lastCall.errorRows) = 1
    /\ lastCall.errorRows[1].tool = lastCall.call.fn
    /\ lastCall.errorRows[1].arguments = lastCall.call.index
    /\ lastCall.errorRows[1].session_id = AgentSession
\* C33 as stated: every failed tool call records exactly one error row for
\* its tool, arguments and session; verified and rate-limited calls none.
C33_OneErrorRow ==
    lastCall.kind # "none" =>
        IF LastCallFailed THEN LastErrorRowFits
        ELSE lastCall.errorRows = <<>>
\* a failed call leaves no row at all: a_save_error never reaches its INSERT
C33_NoErrorRow ==
    lastCall.errorRows = <<>>
\* the second call of a batch returned an expired signature
C33_FailedCall ==
    /\ lastCall.kind = "returned"
    /\ lastCall.text.kind = "sig_error"
    /\ lastCall.call.index = 2

\* ---- C34 ----
\* the pool object that opened connection c
PoolOf(c) == ((c - 1) % (PoolMaxPools + 1)) + 1
\* the connections of pool i that are open
OpenOf(i) == {c \in openConns : PoolOf(c) = i}
\* a task waits in the put() of _init_pool on a full queue
BlockedInInit(t) ==
    /\ tpc[t] = "init_put"
    /\ Len(pools[tpool[t]]._queue) = POOL_SIZE
\* a task waits in the put() of release on a full queue
BlockedInRelease(t) ==
    /\ tpc[t] = "releasing"
    /\ Len(pools[tpool[t]]._queue) = POOL_SIZE
\* every task waits in a put() that only another task's get() could end
AllBlocked ==
    \A t \in PoolTasks : BlockedInInit(t) \/ BlockedInRelease(t)
\* C34: a pool never has more than `size` connections open, and acquire()
\* and release() never wait forever, also when tasks call acquire()
\* concurrently before the first initialisation has finished.
C34_BoundedPool ==
    /\ \A i \in 1..Len(pools) : Cardinality(OpenOf(i)) <= POOL_SIZE
    /\ ~AllBlocked
\* without close_all_pools(): every task is stuck in a put()
C34_Stuck == poolCloses = 0 /\ AllBlocked
\* without close_all_pools(): one pool has more than `size` connections
C34_TooMany ==
    /\ poolCloses = 0
    /\ \E i \in 1..Len(pools) : Cardinality(OpenOf(i)) > POOL_SIZE

\* ---- C35 ----
\* the stored history of the session holds both messages of turn p
TurnStored(p) ==
    \A role \in {"user", "assistant"} :
        \E i \in 1..Len(history) :
            /\ history[i].session_id = StoreSession
            /\ history[i].role = role
            /\ history[i].content = p
\* C35: after two chat turns on the same session ran concurrently, the
\* stored history contains the messages of both turns.
C35_BothTurnsStored ==
    (\A p \in TurnIds : /\ turnsOf[p].pc \in {"done", "failed"}
                        /\ turnsOf[p].include_history) =>
        \A p \in TurnIds : TurnStored(p)
\* a server turn that read the history after the other turn's save keeps
\* the other turn's messages
C35_SequentialTurnsStored ==
    \A p, q \in TurnIds :
        (/\ p # q
         /\ turnsOf[p].pc = "done" /\ turnsOf[q].pc = "done"
         /\ \E i \in 1..Len(turnsOf[q].local) :
               turnsOf[q].local[i].content = p) =>
            TurnStored(p) /\ TurnStored(q)


\* ---- C36 ----
\* the step in which a task of a_save_messages ends
ASaveEnds == wPc = "a_scheduled" /\ wPc' = "idle"
\* C36 (what the code does): a_save_messages fails at get_db(), before its
\* DELETE; the rows of the history table are what they were, and the open
\* transaction of no connection holds a statement of the failed save.
C36_FailsBeforeDelete ==
    [][ASaveEnds => /\ history' = history
                    /\ wTxn' = wTxn
                    /\ wPending' = wPending]_vars
\* a_save_messages has failed over a stored history
C36_FailedSave ==
    /\ wPc = "idle"
    /\ storeOps > 0
    /\ ~lastSaved.saved
    /\ GetHistory(history, StoreSession) # <<>>


\* ---- C37 ----
\* C37: every chat_with_llm turn that returns has added to Window Memory
\* one user message followed by one assistant message, also when the turn
\* ends at the iteration cap.
C37_UserThenAssistant ==
    agentPc = "done" => memoryAdded = <<"user", "assistant">>
\* the turns that end with a final answer of the model do add both
C37_AnsweredTurnAddsBoth ==
    (agentPc = "done" /\ ~has_tool_calls) =>
        memoryAdded = <<"user", "assistant">>
\* a turn has returned at the iteration cap with only its user message added
C37_CappedTurn ==
    /\ agentPc = "done"
    /\ iteration = MAX_TOOLS_ITERATIONS
    /\ memoryAdded = <<"user">>


\* ---- C38 ----
\* C38: every text prune() or force_summarize() has appended to summary is
\* a summary the summariser produced; an error text or an unparsed
\* response is never appended while the messages are dropped.
C38_OnlySummariesAppended ==
    \A i \in 1..Len(summary) : summary[i].kind = "summary"
\* what the code does ensure: an empty text is never appended
C38_NoEmptyTextAppended ==
    \A i \in 1..Len(summary) : summary[i].kind # "empty"
\* the unparsed text of a tool error was appended and its messages dropped
C38_ErrorTextAppended ==
    /\ mpc \in {"idle", "prune_loop"}
    /\ summary # <<>>
    /\ summary[Len(summary)].kind = "raw"
    /\ Len(messages) < Len(cycleSnap.messages)


\* ---- C39 ----
\* the prompts of the plugin directories registered so far
PluginPrompts ==
    UNION {PromptFiles(d) : d \in promptLog.registered}
\* every prompt registered through register_prompt_directory is returned by
\* get_prompt and list_prompts
PluginPromptsServed ==
    \A n \in PluginPrompts :
        /\ get_prompt(_prompt_cache, n) # KeyError
        /\ get_prompt(_prompt_cache, n) \in list_prompts(_prompt_cache)
\* C39: after a refresh() every prompt registered through
\* register_prompt_directory is still returned by get_prompt and
\* list_prompts; a reload never shrinks the registry to the built-in
\* templates.
C39_PluginPromptsSurviveReload ==
    promptLog.refreshes > 0 => PluginPromptsServed
\* until the first reload the registered prompts are served
C39_ServedUntilReload ==
    promptLog.refreshes = 0 => PluginPromptsServed
\* a reload has shrunk the registry to the built-in templates
C39_ShrunkToBuiltins ==
    /\ promptLog.refreshes > 0
    /\ "plugin_a" \in promptLog.registered
    /\ DOMAIN _prompt_cache = PromptFiles(_PROMPTS_PATH)


\* ---- C40 ----
\* the step is a call of allow()
AllowStep == rlCalls' = rlCalls + 1
\* q1 is q without some of its oldest timestamps
IsRestOf(q1, q) ==
    \E k \in 1..(Len(q) + 1) : q1 = SubSeq(q, k, Len(q))
\* C40: allow(s) changes only the timestamps of session s: a rejected call
\* adds none, an accepted call adds exactly one (the time of the call), and
\* the timestamps and the next decision of every other session stay as
\* they were.
C40_AllowFrame ==
    [][AllowStep =>
         LET s == rlLast'.sid
             q == _counters[s]
             q1 == _counters'[s]
         IN  /\ IF rlLast'.ok
                THEN /\ q1 # <<>>
                     /\ q1[Len(q1)] = now
                     /\ IsRestOf(SubSeq(q1, 1, Len(q1) - 1), q)
                ELSE IsRestOf(q1, q)
             /\ \A o \in Sessions \ {s} :
                   /\ _counters'[o] = _counters[o]
                   /\ \A t \in RLTimes :
                         t >= now =>
                            allow(_counters'[o], t) = allow(_counters[o], t)]_vars
\* a call of s1 was rejected at the cap while s2 had timestamps recorded,
\* and s2 is still admitted
C40_Witness ==
    /\ rlLast.called /\ ~rlLast.ok /\ rlLast.sid = "s1"
    /\ rlLast.after["s1"] = rlLast.before["s1"]
    /\ _counters["s2"] # <<>>
    /\ rlLast.after["s2"] = rlLast.before["s2"]
    /\ allow(_counters["s2"], now).ok

====
